---- MODULE Spec2Model ----
(***************************************************************************)
(* Watchdog (mymmind/watchdog): the monitoring state engine.               *)
(*                                                                         *)
(*   StateManager   failures / flapping / acknowledged maps, cooldown and  *)
(*                  sliding-window flap detection                          *)
(*   Monitor        handleCheckResult / handleFailure / handleRecovery /   *)
(*                  handleAnomaly / checkEndpoint                          *)
(*   AnomalyDetector + CircularBuffer   response-time baseline             *)
(*   TelegramNotifier   the message queue, and the connection test and the  *)
(*                  commands of the operator (/start /help /status /restart)*)
(*   Monitor.start / stop   the cron jobs, and the check runs they and the  *)
(*                  warm-up launch (checkServices, checkEndpoints, ...)     *)
(*   Watchdog       start-up (notification, auto-save timer) and shutdown   *)
(*                                                                         *)
(* Time is Date.now() in milliseconds, counted from the start of the       *)
(* process; the clock advances in steps of TickMs.  A ServiceId            *)
(* `${type}:${name}` is the pair <<type, name>>, so that startsWith('ssl:')*)
(* is a test of the first component.  A configuration value that is not    *)
(* set (undefined) is 0, which is what the code's `|| default` tests.      *)
(***************************************************************************)
EXTENDS Integers, Sequences, FiniteSets, TLC

\* ------------------------------------------------------------------ bounds
\* number of clock steps a behaviour may take
MaxTicks == 7
\* cap on FailureRecord.consecutiveFailures (the code's counter is unbounded)
MaxFailures == 4
\* number of direct StateManager.recordStateChange calls in SpecFlap
MaxStateChanges == 4
\* number of direct bot.sendMessage calls (connection test, command replies)
MaxDirect == 2
\* number of queued messages the Telegram API may refuse in Spec
MaxRejected == 1
\* number of sendMessage calls a behaviour may make
MaxMessages == 3
\* number of clock steps in SpecSM
MaxApiTicks == 1
\* in Spec: the connection tests and operator commands a behaviour has, and
\* the sendMessage calls its check runs may make
MaxCommands == 1
MaxServiceAlerts == 2
\* cap on consecutiveFailures and number of recordStateChange calls where the
\* StateManager is watched together with its state file (SpecSM), and the
\* recordStateChange calls in SpecPersist
MaxApiFailures == 2
MaxApiStateChanges == 2
MaxSavedStateChanges == 3
\* number of clock steps of SendTickMs a behaviour may take on its own account
MaxSendTicks == 3
\* largest capacity of the CircularBuffer under test, and pushes made into it
MaxCapacity == 3
MaxPushes == 4
\* recordResponseTime calls made for one id
MaxSamples == 6
\* recordStateChange calls made on one log (the log keeps 10)
MaxLogCalls == 12
\* clock steps taken while a cron job is watched
MaxCronTicks == 130

\* the clock's step: five minutes, in milliseconds
TickMs == 5 * 60 * 1000

\* ------------------------------------------------------- program constants
DefaultCooldownMinutes == 30
DefaultFlappingThreshold == 3
DefaultFlappingWindowMinutes == 10
MinTransitionsForFlapping == 3
MaxTransitionsKept == 10
MinSamples == 5
DefaultMultiplier == 3
DefaultSampleSize == 20

\* ------------------------------------------------------------------ inputs
DockerWeb == <<"docker", "web">>
SslSite == <<"ssl", "site">>
ResourceDisk == <<"resource", "disk">>
HttpApi == <<"http", "api">>
ResourceRam == <<"resource", "ram">>
ResourceCpu == <<"resource", "cpu">>
Pm2Worker == <<"pm2", "worker">>
AllIds ==
  {DockerWeb, SslSite, ResourceDisk, HttpApi, ResourceRam, ResourceCpu, Pm2Worker}
NoId == <<"", "">>

\* the ids each specification works on
SMIds == {DockerWeb, SslSite}
MonIds == {DockerWeb}
AckIds == {DockerWeb}
ApiIds == {DockerWeb}
OpsIds == {DockerWeb}
HttpIds == {HttpApi}

Errors == {"timeout", "refused"}
HealthStates == {"healthy", "unhealthy"}
\* response times (ms) an HTTP check may report
ResponseTimes == {100, 400}

\* config.alerts / config.anomaly as the loader hands them over
DefaultConfig ==
  [cooldownMinutes |-> 0, flappingThreshold |-> 0, flappingWindowMinutes |-> 0,
   recoveryNotify |-> TRUE, anomalyEnabled |-> TRUE, multiplier |-> 0,
   sampleSize |-> 0, services |-> {}]
ShortConfig ==
  [cooldownMinutes |-> 10, flappingThreshold |-> 2, flappingWindowMinutes |-> 5,
   recoveryNotify |-> FALSE, anomalyEnabled |-> TRUE, multiplier |-> 3,
   sampleSize |-> 5, services |-> {}]
WideConfig ==
  [cooldownMinutes |-> 15, flappingThreshold |-> 4, flappingWindowMinutes |-> 15,
   recoveryNotify |-> TRUE, anomalyEnabled |-> TRUE, multiplier |-> 2,
   sampleSize |-> 6, services |-> {}]
\* anomaly: { enabled: false }
DisabledConfig == [DefaultConfig EXCEPT !.anomalyEnabled = FALSE]
\* an AnomalyDetector constructed with sampleSize 3: the constructor takes any
\* size (the minimum of 5 is checked by the configuration loader only)
SmallConfig == [ShortConfig EXCEPT !.sampleSize = 3]

VARIABLES
  now,            \* Date.now()
  config,         \* the configuration the components were constructed with
  failures,       \* StateManager.state.failures   : Map id -> FailureRecord
  flapping,       \* StateManager.state.flapping   : Map id -> Transition[]
  acknowledged,   \* StateManager.state.acknowledged : Set of id
  responseTimes,  \* AnomalyDetector.responseTimes : Map id -> CircularBuffer
  emitted,        \* the notifier calls made by the last operation, in order
  lastOp,         \* the last operation: [kind, id, arg, ret]
  lastResult,     \* id -> health of the last check result of id
  lastCall,       \* id -> the last of recordFailure / recordRecovery made for id
  lastAlertAt,    \* id -> time of the last failure alert of the current outage
                  \*       (-1: none yet, -2: the outage had a flapping alert)
  edges,          \* id -> times of the health flips observed inside the window
  ticks,          \* clock steps taken
  stateChanges,   \* direct recordStateChange calls made
  sslExpiry,      \* StateManager.state.sslExpiry : Map domain -> ISO date
  outage,         \* id -> [since, calls]: when the recordFailure call that opened
                  \* the current outage was made, and the recordFailure calls since
  messageQueue,   \* TelegramNotifier.messageQueue : the queued messages, in order
  isProcessingQueue, \* TelegramNotifier.isProcessingQueue
  lastSentTime,   \* TelegramNotifier.lastSentTime
  drain,          \* where the drain loop (processQueue) is suspended
  handed,         \* the transport calls bot.sendMessage made so far, in order
  promises,       \* message number -> state of the promise sendMessage returned
  handlers,       \* check-result handlings in progress: slot -> position
  commands,       \* the command side of the TelegramNotifier: [checkers, inTry,
                  \* last]: this.checkers is set, and the direct bot.sendMessage
                  \* calls in flight, those made inside a try block whose catch
                  \* block replies again and those whose rejection is only logged
  buf,            \* a CircularBuffer: [size, buffer, index, count]
  pushes,         \* the values pushed into `buf` since it was new or cleared, in order
  samples,        \* id -> the samples recorded for id, in order: the values of
                  \* the snapshot last restored, if any, and those
                  \* recordResponseTime was called with since the history of
                  \* id was last cleared or restored
  stateFile,      \* the file at StateManager.statePath
  monitor,        \* Monitor: [isRunning, jobs], jobs the categories scheduled
  runs,           \* the [category, by] that have a check run in progress
  resourceRun,    \* checkResources: the results not yet passed to handleCheckResult
  resourceCalls,  \* the checkResources() calls made so far
  timer,          \* a scheduled cron job: [interval, expr, lastFired, gap]
  process,        \* the Watchdog process: [phase, notice, signals, saved, startup]
  cycle           \* checkServices: launcher -> (service -> where its
                  \* checkService call is), for the run in progress

smVars == <<failures, flapping, acknowledged>>
ghostVars == <<lastResult, lastCall, lastAlertAt, edges, outage>>
countVars == <<ticks, stateChanges>>
dispVars == <<messageQueue, isProcessingQueue, lastSentTime, drain, handed,
              promises, handlers, commands>>
schedVars == <<monitor, runs, resourceRun, resourceCalls, timer, process,
               cycle>>
compVars == <<buf, pushes, samples, stateFile, monitor, runs, resourceRun,
              resourceCalls,
              timer, process, cycle>>
vars == <<now, config, failures, flapping, acknowledged, responseTimes, emitted,
          lastOp, lastResult, lastCall, lastAlertAt, edges, ticks,
          stateChanges, sslExpiry, outage, messageQueue,
          isProcessingQueue, lastSentTime, drain, handed, promises, handlers,
          commands,
          buf, pushes, samples, stateFile, monitor, runs, resourceRun,
          resourceCalls,
          timer, process, cycle>>

\* ------------------------------------------------------------- JS Map helpers
EmptyMap == [k \in {} |-> 0]
MapHas(m, k) == k \in DOMAIN m
MapSet(m, k, v) == [x \in (DOMAIN m) \cup {k} |-> IF x = k THEN v ELSE m[x]]
MapDelete(m, k) == [x \in (DOMAIN m) \ {k} |-> m[x]]

\* ------------------------------------------------------------- StateManager
\* (this.config.alerts?.cooldownMinutes || 30) * 60 * 1000
cooldownMs(cfg) ==
  (IF cfg.cooldownMinutes # 0 THEN cfg.cooldownMinutes ELSE DefaultCooldownMinutes)
    * 60 * 1000

\* this.config.alerts?.flappingThreshold || 3
threshold(cfg) ==
  IF cfg.flappingThreshold # 0 THEN cfg.flappingThreshold ELSE DefaultFlappingThreshold

\* (this.config.alerts?.flappingWindowMinutes || 10) * 60 * 1000
windowMs(cfg) ==
  (IF cfg.flappingWindowMinutes # 0 THEN cfg.flappingWindowMinutes
   ELSE DefaultFlappingWindowMinutes) * 60 * 1000

\* minutesSinceLastAlert >= cooldownMs / 60000, with
\* minutesSinceLastAlert = (now - lastAlertSent) / 1000 / 60: both sides are
\* the millisecond values divided by 60000, so the test is the one below.
cooldownExpired_NoReAlert(cfg, lastAlertSent, t) == FALSE
cooldownExpired_Strict(cfg, lastAlertSent, t) == t - lastAlertSent > cooldownMs(cfg)
cooldownExpired(cfg, lastAlertSent, t) == t - lastAlertSent >= cooldownMs(cfg)

\* recordFailure(serviceId, error): the new failures map and the action
recordFailure_RestartsRecord(fs, cfg, id, error, t) ==
  IF ~MapHas(fs, id)
  THEN [failures |-> MapSet(fs, id, [firstSeen |-> t, lastAlertSent |-> t,
                                     error |-> error, consecutiveFailures |-> 1]),
        action |-> "first_failure"]
  ELSE LET existing == [fs[id] EXCEPT !.consecutiveFailures = @ + 1,
                                      !.error = error]
       IN  IF t - existing.lastAlertSent >= cooldownMs(cfg)
           THEN [failures |-> MapSet(fs, id, [existing EXCEPT !.lastAlertSent = t,
                                                              !.firstSeen = t]),
                 action |-> "ongoing_failure"]
           ELSE [failures |-> MapSet(fs, id, existing), action |-> "suppressed"]
recordFailure(fs, cfg, id, error, t) ==
  IF ~MapHas(fs, id)
  THEN [failures |-> MapSet(fs, id, [firstSeen |-> t, lastAlertSent |-> t,
                                     error |-> error, consecutiveFailures |-> 1]),
        action |-> "first_failure"]
  ELSE LET existing == [fs[id] EXCEPT !.consecutiveFailures = @ + 1,
                                      !.error = error]
       IN  IF cooldownExpired(cfg, existing.lastAlertSent, t)
           THEN [failures |-> MapSet(fs, id, [existing EXCEPT !.lastAlertSent = t]),
                 action |-> "ongoing_failure"]
           ELSE [failures |-> MapSet(fs, id, existing), action |-> "suppressed"]

\* the null that recordRecovery returns when there is no record
NullRecovery == [downtimeDuration |-> -1, failuresSeen |-> 0, firstSeen |-> -1]

\* recordRecovery(serviceId): the new failures map and the returned info
recordRecovery_SinceLastAlert(fs, id, t) ==
  IF ~MapHas(fs, id)
  THEN [failures |-> fs, ret |-> NullRecovery]
  ELSE [failures |-> MapDelete(fs, id),
        ret |-> [downtimeDuration |-> t - fs[id].lastAlertSent,
                 failuresSeen |-> fs[id].consecutiveFailures,
                 firstSeen |-> fs[id].firstSeen]]
recordRecovery_NeverNull(fs, id, t) ==
  IF ~MapHas(fs, id)
  THEN [failures |-> fs,
        ret |-> [downtimeDuration |-> 0, failuresSeen |-> 0, firstSeen |-> t]]
  ELSE [failures |-> MapDelete(fs, id),
        ret |-> [downtimeDuration |-> t - fs[id].firstSeen,
                 failuresSeen |-> fs[id].consecutiveFailures,
                 firstSeen |-> fs[id].firstSeen]]
recordRecovery_KeepsRecord(fs, id, t) ==
  IF ~MapHas(fs, id)
  THEN [failures |-> fs, ret |-> NullRecovery]
  ELSE [failures |-> fs,
        ret |-> [downtimeDuration |-> t - fs[id].firstSeen,
                 failuresSeen |-> fs[id].consecutiveFailures,
                 firstSeen |-> fs[id].firstSeen]]
recordRecovery(fs, id, t) ==
  IF ~MapHas(fs, id)
  THEN [failures |-> fs, ret |-> NullRecovery]
  ELSE [failures |-> MapDelete(fs, id),
        ret |-> [downtimeDuration |-> t - fs[id].firstSeen,
                 failuresSeen |-> fs[id].consecutiveFailures,
                 firstSeen |-> fs[id].firstSeen]]

\* this.state.flapping.get(serviceId) || []
transitionsOf(fl, id) == IF MapHas(fl, id) THEN fl[id] ELSE <<>>

\* transitions.filter((t) => now - t.time < windowMs)
recentTransitions(trs, cfg, t) ==
  SelectSeq(trs, LAMBDA tr : t - tr.time < windowMs(cfg))

\* isFlapping(serviceId)
isFlapping(fl, cfg, id, t) ==
  LET transitions == transitionsOf(fl, id)
  IN  IF Len(transitions) < MinTransitionsForFlapping
      THEN FALSE
      ELSE Len(recentTransitions(transitions, cfg, t)) >= threshold(cfg)

\* recordStateChange(serviceId, newState): the new flapping map (the returned
\* flag is isFlapping of it)
recordStateChange_DropsNewest(fl, id, newState, t) ==
  LET pushed == Append(transitionsOf(fl, id), [time |-> t, state |-> newState])
      kept == IF Len(pushed) > MaxTransitionsKept
              THEN SubSeq(pushed, 1, MaxTransitionsKept) ELSE pushed
  IN  MapSet(fl, id, kept)
recordStateChange(fl, id, newState, t) ==
  LET pushed == Append(transitionsOf(fl, id), [time |-> t, state |-> newState])
      kept == IF Len(pushed) > MaxTransitionsKept THEN Tail(pushed) ELSE pushed
  IN  MapSet(fl, id, kept)

\* getFlappingInfo(serviceId)
getFlappingInfo(fl, cfg, id, t) ==
  LET recent == recentTransitions(transitionsOf(fl, id), cfg, t)
  IN  [isFlapping |-> isFlapping(fl, cfg, id, t),
       transitionCount |-> Len(recent),
       transitions |-> recent]

\* isAcknowledged(serviceId)
isAcknowledged_Never(ack, id) == FALSE
isAcknowledged(ack, id) == id \in ack

\* clearFlappingHistory(serviceId)
clearFlappingHistory(fl, id) == MapDelete(fl, id)

\* getFailure(serviceId): the record, or "null"
hasFailure(fs, id) == MapHas(fs, id)

\* ------------------------------------------- StateManager: the state file
\* a collection as the file holds it: an array of entries, or a value that
\* `new Map(...)` / `new Set(...)` cannot iterate
Stored(es) == [iterable |-> TRUE, entries |-> es]
NotIterable == [iterable |-> FALSE, entries |-> {}]

\* Array.from(map.entries()): the [key, value] pairs
entries(m) == {<<k, m[k]>> : k \in DOMAIN m}

\* new Map(entries)
newMap(es) == [k \in {e[1] : e \in es} |-> (CHOOSE e \in es : e[1] = k)[2]]

\* the `data` object save() writes
stringify(fs, fl, ack, ssl) ==
  [failures |-> Stored(entries(fs)), flapping |-> Stored(entries(fl)),
   acknowledged |-> Stored(ack), sslExpiry |-> Stored(entries(ssl))]

\* this.state as the constructor sets it up
FreshState ==
  [failures |-> EmptyMap, flapping |-> EmptyMap, acknowledged |-> {},
   sslExpiry |-> EmptyMap]

\* no file at statePath; a file save() wrote; a file that cannot be read; a
\* file that is not JSON
NoFile ==
  [exists |-> FALSE, readable |-> TRUE, parses |-> TRUE,
   data |-> stringify(EmptyMap, EmptyMap, {}, EmptyMap)]
FileOf(data) == [exists |-> TRUE, readable |-> TRUE, parses |-> TRUE, data |-> data]
UnreadableFile == [NoFile EXCEPT !.exists = TRUE, !.readable = FALSE]
InvalidFile == [NoFile EXCEPT !.exists = TRUE, !.parses = FALSE]

\* load(), the try block: the collections are assigned one after the other,
\* and the first one that cannot be restored throws into the catch block
RECURSIVE restoreEach(_, _, _)
restoreEach(data, state, fields) ==
  IF fields = <<>> THEN [state |-> state, outcome |-> "loaded"]
  ELSE LET f == Head(fields)
       IN  IF ~data[f].iterable THEN [state |-> state, outcome |-> "load failed"]
           ELSE restoreEach(data,
                            [state EXCEPT ![f] = IF f = "acknowledged"
                                                 THEN data[f].entries
                                                 ELSE newMap(data[f].entries)],
                            Tail(fields))

\* load() on `file` with the collections restored in the order `fields`
loadFields(file, fields) ==
  IF ~file.exists THEN [state |-> FreshState, outcome |-> "no file"]
  ELSE IF ~file.readable \/ ~file.parses
       THEN [state |-> FreshState, outcome |-> "load failed"]
       ELSE restoreEach(file.data, FreshState, fields)

\* load()
load_SkipsAcknowledged(file) ==
  loadFields(file, <<"failures", "flapping", "sslExpiry">>)
load(file) ==
  loadFields(file, <<"failures", "flapping", "acknowledged", "sslExpiry">>)

\* what fs.writeFileSync(statePath, text) may do: write the text; throw
\* before the file is opened (the file is as it was); or throw after the
\* file was opened and truncated (the file is there and is not JSON)
SaveOutcomes == {"written", "unchanged", "truncated"}

\* save(): the file afterwards; when writeFileSync throws, the catch block
\* logs the error
save(file, fs, fl, ack, ssl, outcome) ==
  IF outcome = "written" THEN FileOf(stringify(fs, fl, ack, ssl))
  ELSE IF outcome = "truncated" THEN InvalidFile
  ELSE file

\* ---------------------------------------------------------- CircularBuffer
\* a slot of `new Array(size)` that was never written
Undefined == -1

\* new CircularBuffer(size)
newBuffer(size) ==
  [size |-> size, buffer |-> [i \in 0..(size - 1) |-> Undefined],
   index |-> 0, count |-> 0]

\* push(value)
push(b, value) ==
  [b EXCEPT !.buffer = [b.buffer EXCEPT ![b.index] = value],
            !.index = (b.index + 1) % b.size,
            !.count = IF b.count < b.size THEN b.count + 1 ELSE b.count]

\* buffer.slice(from, to)
slice(b, from, to) == [i \in 1..(to - from) |-> b.buffer[from + i - 1]]

\* values.reduce((sum, v) => sum + v, 0)
RECURSIVE SumSeq(_)
SumSeq(values) == IF values = <<>> THEN 0 ELSE Head(values) + SumSeq(Tail(values))

\* the elements of an array
Range(values) == {values[i] : i \in DOMAIN values}

\* getAll(): oldest to newest
getAll_FromZero(b) == slice(b, 0, b.count)
getAll(b) ==
  IF b.count < b.size
  THEN slice(b, 0, b.count)
  ELSE slice(b, b.index, b.size) \o slice(b, 0, b.index)

\* getMedian(), as the fraction num / den (den is 2 for an even count)
getMedian_UpperMiddle(b) ==
  LET values == SortSeq(getAll(b), LAMBDA x, y : x < y)
  IN  IF Len(values) = 0 THEN [num |-> 0, den |-> 1]
      ELSE [num |-> values[Len(values) \div 2 + 1], den |-> 1]
getMedian(b) ==
  LET values == SortSeq(getAll(b), LAMBDA x, y : x < y)
      mid == Len(values) \div 2
  IN  IF Len(values) = 0 THEN [num |-> 0, den |-> 1]
      ELSE IF Len(values) % 2 = 0
           THEN [num |-> values[mid] + values[mid + 1], den |-> 2]
           ELSE [num |-> values[mid + 1], den |-> 1]

\* getAverage(), as the fraction num / den
getAverage(b) ==
  LET values == getAll(b)
  IN  IF Len(values) = 0 THEN [num |-> 0, den |-> 1]
      ELSE [num |-> SumSeq(values), den |-> Len(values)]

\* getMin()
getMin(b) ==
  LET values == getAll(b)
  IN  IF Len(values) = 0 THEN 0
      ELSE CHOOSE v \in Range(values) : \A w \in Range(values) : v <= w

\* getMax()
getMax(b) ==
  LET values == getAll(b)
  IN  IF Len(values) = 0 THEN 0
      ELSE CHOOSE v \in Range(values) : \A w \in Range(values) : v >= w

\* length()
length(b) == b.count

\* clear()
clear(b) == newBuffer(b.size)

\* toJSON()
toJSON(b) == [size |-> b.size, values |-> getAll(b)]

\* for (const value of values) buffer.push(value)
RECURSIVE pushEach(_, _)
pushEach(b, values) ==
  IF values = <<>> THEN b ELSE pushEach(push(b, Head(values)), Tail(values))

\* CircularBuffer.fromJSON(json)
fromJSON_Shrunk(json) == pushEach(newBuffer(Len(json.values) + 1), json.values)
fromJSON(json) == pushEach(newBuffer(json.size), json.values)

\* --------------------------------------------------------- AnomalyDetector
\* config.anomaly?.multiplier || 3.0
multiplierOf(cfg) == IF cfg.multiplier # 0 THEN cfg.multiplier ELSE DefaultMultiplier

\* config.anomaly?.sampleSize || 20
sampleSizeOf(cfg) == IF cfg.sampleSize # 0 THEN cfg.sampleSize ELSE DefaultSampleSize

\* recordResponseTime(serviceId, responseTime): the new responseTimes map
recordResponseTime(rts, cfg, id, responseTime) ==
  IF ~cfg.anomalyEnabled THEN rts
  ELSE LET buffer == IF MapHas(rts, id) THEN rts[id] ELSE newBuffer(sampleSizeOf(cfg))
       IN  MapSet(rts, id, push(buffer, responseTime))

\* checkAnomaly(serviceId, responseTime)
checkAnomaly_CountsSample(rts, cfg, id, responseTime) ==
  IF ~cfg.anomalyEnabled
  THEN [isAnomaly |-> FALSE, reason |-> "detection disabled"]
  ELSE IF ~MapHas(rts, id) \/ rts[id].count + 1 < MinSamples
       THEN [isAnomaly |-> FALSE, reason |-> "insufficient samples"]
       ELSE [isAnomaly |-> responseTime * getMedian(rts[id]).den
                             > getMedian(rts[id]).num * multiplierOf(cfg),
             reason |-> ""]
checkAnomaly_Mean(rts, cfg, id, responseTime) ==
  IF ~cfg.anomalyEnabled
  THEN [isAnomaly |-> FALSE, reason |-> "detection disabled"]
  ELSE IF ~MapHas(rts, id) \/ rts[id].count < MinSamples
       THEN [isAnomaly |-> FALSE, reason |-> "insufficient samples"]
       ELSE [isAnomaly |-> responseTime * getAverage(rts[id]).den
                             > getAverage(rts[id]).num * multiplierOf(cfg),
             reason |-> ""]
checkAnomaly(rts, cfg, id, responseTime) ==
  IF ~cfg.anomalyEnabled
  THEN [isAnomaly |-> FALSE, reason |-> "detection disabled"]
  ELSE IF ~MapHas(rts, id) \/ rts[id].count < MinSamples
       THEN [isAnomaly |-> FALSE, reason |-> "insufficient samples"]
       ELSE LET median == getMedian(rts[id])
            IN  \* responseTime > median * multiplier
                [isAnomaly |-> responseTime * median.den
                                 > median.num * multiplierOf(cfg),
                 reason |-> ""]

\* clearHistory(serviceId)
clearHistory(rts, id) == MapDelete(rts, id)

\* AnomalyDetector.fromJSON(data), data a map id -> serialised buffer: each
\* buffer CircularBuffer.fromJSON restores replaces the one of its id,
\* whether detection is enabled or not; an entry whose restoration throws (the
\* constructor rejects a size <= 0) is skipped
RECURSIVE restoreBuffers(_, _, _)
restoreBuffers(rts, data, ids) ==
  IF ids = {} THEN rts
  ELSE LET id == CHOOSE i \in ids : TRUE
           next == IF data[id].size <= 0 THEN rts
                   ELSE MapSet(rts, id, fromJSON(data[id]))
       IN  restoreBuffers(next, data, ids \ {id})
AnomalyDetector_fromJSON(rts, data) == restoreBuffers(rts, data, DOMAIN data)

\* ------------------------------------------------------------------ Monitor
\* index.js constructs the TelegramNotifier before the Monitor and hands it over
notifier == TRUE

Alert(type, id, action) == [type |-> type, id |-> id, action |-> action]

\* the notifier call handleFailure makes for a failure that is to be alerted
failureAlert(id, action) ==
  IF id[1] = "ssl" THEN Alert("ssl", id, "")
  ELSE IF id[1] = "resource" THEN Alert("resource", id, "")
  ELSE Alert("failure", id, action)

\* handleFailure without the `return` that ends the flapping branch
handleFailure_NoReturn(fs, fl, cfg, id, result, t) ==
  LET r == recordFailure(fs, cfg, id, result.error, t)
  IN  [failures |-> r.failures, flapping |-> fl, action |-> r.action,
       emitted |->
         (IF isFlapping(fl, cfg, id, t) /\ notifier
          THEN <<Alert("flapping", id, "")>> ELSE <<>>)
         \o (IF r.action \in {"first_failure", "ongoing_failure"} /\ notifier
             THEN <<failureAlert(id, r.action)>> ELSE <<>>)]

\* handleFailure(serviceId, service, result)
handleFailure(fs, fl, cfg, id, result, t) ==
  LET r == recordFailure(fs, cfg, id, result.error, t)
  IN  [failures |-> r.failures, flapping |-> fl, action |-> r.action,
       emitted |->
         IF isFlapping(fl, cfg, id, t)
         THEN (IF notifier THEN <<Alert("flapping", id, "")>> ELSE <<>>)
         ELSE IF r.action \in {"first_failure", "ongoing_failure"}
              THEN (IF notifier THEN <<failureAlert(id, r.action)>> ELSE <<>>)
              ELSE <<>>]

\* handleAnomaly(serviceId, service, anomaly)
handleAnomaly(id) == IF notifier THEN <<Alert("anomaly", id, "")>> ELSE <<>>

\* a catch block that logs and throws the error again: the promise of the
\* method is rejected
onCheckError_Rethrows(fs, fl, cfg, id, t) ==
  [failures |-> fs, flapping |-> fl, emitted |-> <<>>, promise |-> "rejected"]

\* the catch block of checkService / checkEndpoint / checkSSLCert /
\* checkResources: the error is logged, the StateManager is left alone,
\* nothing is handed to the notifier and the method returns, which fulfils
\* its promise
onCheckError(fs, fl, cfg, id, t) ==
  [failures |-> fs, flapping |-> fl, emitted |-> <<>>, promise |-> "fulfilled"]

\* handleRecovery without the clearFlappingHistory call that ends it
handleRecoveryBegin_KeepsHistory(fs, fl, cfg, id, t) ==
  LET r == recordRecovery(fs, id, t)
  IN  IF r.ret = NullRecovery
      THEN [failures |-> r.failures, flapping |-> fl, action |-> "null",
            emitted |-> <<>>, rest |-> "return"]
      ELSE [failures |-> r.failures, flapping |-> fl, action |-> "recovered",
            emitted |-> IF cfg.recoveryNotify /\ notifier
                        THEN <<Alert("recovery", id, "")>> ELSE <<>>,
            rest |-> "return"]

\* handleRecovery up to its first suspension: recordRecovery and, when
\* recovery notifications are on, the call of sendRecoveryAlert that it
\* awaits; `rest` is what is left to run after the await
handleRecoveryBegin(fs, fl, cfg, id, t) ==
  LET r == recordRecovery(fs, id, t)
  IN  IF r.ret = NullRecovery
      THEN [failures |-> r.failures, flapping |-> fl, action |-> "null",
            emitted |-> <<>>, rest |-> "return"]
      ELSE IF cfg.recoveryNotify /\ notifier
           THEN [failures |-> r.failures, flapping |-> fl, action |-> "recovered",
                 emitted |-> <<Alert("recovery", id, "")>>,
                 rest |-> "clearFlappingHistory"]
           ELSE [failures |-> r.failures,
                 flapping |-> clearFlappingHistory(fl, id),
                 action |-> "recovered", emitted |-> <<>>, rest |-> "return"]

\* handleCheckResult up to its first suspension (the awaited notifier call of
\* handleFailure / handleRecovery)
handleCheckResultBegin(fs, fl, ack, cfg, id, result, t) ==
  IF isAcknowledged(ack, id)
  THEN [failures |-> fs, flapping |-> fl, action |-> "skipped", emitted |-> <<>>,
        rest |-> "return"]
  ELSE LET previousFailure == hasFailure(fs, id)
           wasHealthy == ~previousFailure
           isHealthy == result.healthy
           fl1 == IF wasHealthy # isHealthy
                  THEN recordStateChange(fl, id,
                         IF isHealthy THEN "healthy" ELSE "unhealthy", t)
                  ELSE fl
           f == handleFailure(fs, fl1, cfg, id, result, t)
       IN  IF ~result.healthy
           THEN [failures |-> f.failures, flapping |-> f.flapping,
                 action |-> f.action, emitted |-> f.emitted, rest |-> "return"]
           ELSE IF previousFailure THEN handleRecoveryBegin(fs, fl1, cfg, id, t)
           ELSE [failures |-> fs, flapping |-> fl1, action |-> "none",
                 emitted |-> <<>>, rest |-> "return"]

\* -------------------------------------------------------- TelegramNotifier
\* Date.now() at the start of the process; lastSentTime starts at the epoch
ProcessStartMs == 1000000

\* this.minInterval = 1000 / 30 ms, as the fraction MinIntervalNum / MinIntervalDen
MinIntervalNum == 1000
MinIntervalDen == 30

\* the clock's step while the dispatcher is watched: 20 ms
SendTickMs == 20

\* messages are numbered in the order of the sendMessage calls
NoMessage == 0

\* the drain loop is not running / is suspended in sleep / in bot.sendMessage
DrainIdle == [pc |-> "idle", message |-> NoMessage, sleepFrom |-> 0, sleepFor |-> 0]
DrainSleeping(start, duration) ==
  [pc |-> "sleeping", message |-> NoMessage, sleepFrom |-> start,
   sleepFor |-> duration]
DrainSending(m) == [pc |-> "sending", message |-> m, sleepFrom |-> 0, sleepFor |-> 0]

\* the concurrent check-result handlings the Scheduler may have in progress
Handlers == {"h1", "h2"}
HandlerIdle == [pc |-> "idle", id |-> NoId, rest |-> "", message |-> NoMessage]

\* the command side of the notifier as index.js constructs it: with the
\* StateManager, without the checkers, and no direct call in flight
NoCommands == [checkers |-> FALSE, inTry |-> 0, last |-> 0]

\* timeSinceLastSent < this.minInterval
tooFast(last, t) == (t - last) * MinIntervalDen < MinIntervalNum

\* this.minInterval - timeSinceLastSent, in units of 1 / MinIntervalDen ms
sleepTime(last, t) == MinIntervalNum - (t - last) * MinIntervalDen

\* the delay of setTimeout(resolve, ms) in whole milliseconds, ms given in
\* units of 1 / MinIntervalDen ms: Node truncates the delay and takes 1 for a
\* delay below 1
timeoutMs(duration) ==
  IF duration \div MinIntervalDen < 1 THEN 1 ELSE duration \div MinIntervalDen

\* setTimeout(resolve, ms) started at Date.now() = start may fire at
\* Date.now() = t: once the truncated delay has passed on the clock of the
\* event loop, which Date.now() may be a millisecond ahead of
timerDue(start, duration, t) == t - start >= timeoutMs(duration) - 1

\* this.messageQueue.shift(): the message taken and the queue that is left
shift_Pop(q) == [message |-> q[Len(q)], queue |-> SubSeq(q, 1, Len(q) - 1)]
shift_Peek(q) == [message |-> Head(q), queue |-> q]
shift(q) == [message |-> Head(q), queue |-> Tail(q)]

\* the loop body from the shift to the awaited bot.sendMessage call
sendNext(q) ==
  LET s == shift(q)
  IN  [queue |-> s.queue, processing |-> TRUE, drain |-> DrainSending(s.message),
       call |-> s.message]

\* the drain loop from the head of `while` to its next suspension, or to its
\* end: `call` is the message handed to the transport on the way, if any
runLoop(q, last, t) ==
  IF Len(q) = 0
  THEN [queue |-> q, processing |-> FALSE, drain |-> DrainIdle, call |-> NoMessage]
  ELSE IF tooFast(last, t)
       THEN [queue |-> q, processing |-> TRUE,
             drain |-> DrainSleeping(t, sleepTime(last, t)), call |-> NoMessage]
       ELSE sendNext(q)

\* processQueue's entry test: a loop is started only when none is running and
\* the queue is not empty
entersLoop_Never(processing, q) == FALSE
entersLoop_IgnoresFlag(processing, q) == Len(q) # 0
entersLoop(processing, q) == ~(processing \/ Len(q) = 0)

\* processQueue(), called synchronously by sendMessage
processQueue(q, processing, dr, last, t) ==
  IF entersLoop(processing, q) THEN runLoop(q, last, t)
  ELSE [queue |-> q, processing |-> processing, drain |-> dr, call |-> NoMessage]

\* sendMessage(message): push, then processQueue()
sendMessage(q, processing, dr, last, m, t) ==
  processQueue(Append(q, m), processing, dr, last, t)

\* the log of transport calls after a step that handed `call` over at time t
handedAfter(hd, call, t) ==
  IF call = NoMessage THEN hd ELSE Append(hd, [message |-> call, at |-> t])

\* ------------------------------------------------------------ initial state
Op(kind, id, arg, ret) == [kind |-> kind, id |-> id, arg |-> arg, ret |-> ret]
HealthOf(result) == IF result.healthy THEN "healthy" ELSE "unhealthy"

\* no outage is open
NoOutage == [since |-> -1, calls |-> 0]

\* ------------------------------------------------------------- cron timers
\* a field of a cron expression: `*`, `*/n` or the number v
AnyValue == [kind |-> "any", n |-> 0]
Every(n) == [kind |-> "every", n |-> n]
At(v) == [kind |-> "at", n |-> v]

\* a cron expression by its second, minute and hour fields (the day, month
\* and weekday fields are `*` in every expression cronFromMs returns; an
\* expression of five fields has the second 0); NoCron: none
CronExpr(s, m, h) == [second |-> s, minute |-> m, hour |-> h]
NoCron == CronExpr(At(0 - 1), At(0 - 1), At(0 - 1))

\* cronFromMs(ms)
cronFromMs(ms) ==
  LET seconds == ms \div 1000
      minutes == seconds \div 60
      hours == minutes \div 60
  IN  IF seconds < 60 THEN CronExpr(Every(seconds), AnyValue, AnyValue)
      ELSE IF minutes < 60 THEN CronExpr(At(0), Every(minutes), AnyValue)
      ELSE CronExpr(At(0), At(0), Every(hours))

\* node-cron: the value v of a clock field matches the field f of a pattern
\* (`*/n` stands for the values 0, n, 2n, ... of the field's range)
matches(f, v) ==
  IF f.kind = "any" THEN TRUE
  ELSE IF f.kind = "every" THEN v % f.n = 0
  ELSE v = f.n

\* node-cron: the job scheduled with expr fires at wall-clock time t (ms)
firesAt(expr, t) ==
  /\ t % 1000 = 0
  /\ matches(expr.second, (t \div 1000) % 60)
  /\ matches(expr.minute, (t \div 60000) % 60)
  /\ matches(expr.hour, (t \div 3600000) % 24)

\* the clock's step while a cron job is watched: the unit of the finest field
\* the job's expression restricts
cronStepMs(expr) ==
  IF expr.second.kind = "every" THEN 1000
  ELSE IF expr.minute.kind = "every" THEN 60000
  ELSE 3600000

\* the process from its start to Watchdog.shutdown: no shutdown() call was
\* made, no shutdown notice is queued, nothing was saved by a shutdown, and
\* Watchdog.start has not reached sendStartupNotification
ProcessRunning ==
  [phase |-> "running", notice |-> NoMessage, signals |-> 0, saved |-> FALSE,
   startup |-> FALSE]

\* the check categories, each with a cron job of its own
Categories == {"services", "endpoints", "resources", "ssl"}

\* runInitialChecks(): the check methods it calls
initialChecks == {"services", "endpoints", "resources"}

\* the check run of category c launched by start() or by the timer of c
Run(c, by) == [category |-> c, by |-> by]

\* the runs one cron job may have in progress at a time: its callback calls
\* the check method at every firing, whether or not the run of an earlier
\* firing is over
MaxTimerRuns == 2

\* the k-th of them
TimerRun(k) == IF k = 1 THEN "timer" ELSE "timer" \o ToString(k)

\* what calls checkServices(): the warm-up of start() and the cron job
Launchers == {"start"} \cup {TimerRun(k) : k \in 1..MaxTimerRuns}

\* where the checkService call of a service is: its Checker has not returned,
\* handleCheckResult is suspended in the slot of that name, or the promise
\* of the call has settled
CycleStates == {"checking", "h1", "h2", "fulfilled", "rejected"}

\* the run of category c that `by` launches, in the bookkeeping of the
\* checkServices runs: services.map(...) calls checkService for every
\* configured service
launch(cy, cfg, c, by) ==
  IF c = "services"
  THEN [cy EXCEPT ![by] = [id \in cfg.services |-> "checking"]]
  ELSE cy

\* the promises of the checkService calls whose handleCheckResult returned
\* (its slot hs[...] is idle again) are fulfilled
afterHandlings(cy, hs) ==
  [by \in DOMAIN cy |->
     [id \in DOMAIN cy[by] |->
        IF cy[by][id] \in {"h1", "h2"} /\ hs[cy[by][id]].pc = "idle"
        THEN "fulfilled" ELSE cy[by][id]]]

\* Promise.allSettled(services.map(...)) of the run `by` launched has
\* settled: every checkService promise has
allSettled(cy, by) ==
  \A id \in DOMAIN cy[by] : cy[by][id] \in {"fulfilled", "rejected"}

\* results.filter((r) => r.status === 'rejected').length
rejectedCount(cy, by) ==
  Cardinality({id \in DOMAIN cy[by] : cy[by][id] = "rejected"})

\* no cron job is scheduled
NoTimer == [interval |-> 0, expr |-> NoCron, lastFired |-> -1, gap |-> 0]

\* the state after `new StateManager(path, config)` with no state file and
\* `new Monitor(config, stateManager, notifier)`
InitState(configs) ==
  /\ now = 0
  /\ config \in configs
  /\ failures = EmptyMap
  /\ flapping = EmptyMap
  /\ acknowledged = {}
  /\ responseTimes = EmptyMap
  /\ emitted = <<>>
  /\ lastOp = Op("init", NoId, "", "")
  /\ lastResult = [id \in AllIds |-> "none"]
  /\ lastCall = [id \in AllIds |-> "none"]
  /\ lastAlertAt = [id \in AllIds |-> -1]
  /\ edges = [id \in AllIds |-> <<>>]
  /\ ticks = 0
  /\ stateChanges = 0
  /\ sslExpiry = EmptyMap
  /\ outage = [id \in AllIds |-> NoOutage]
  /\ messageQueue = <<>>
  /\ isProcessingQueue = FALSE
  /\ lastSentTime = 0 - ProcessStartMs
  /\ drain = DrainIdle
  /\ handed = <<>>
  /\ promises = EmptyMap
  /\ handlers = [h \in Handlers |-> HandlerIdle]
  /\ commands = NoCommands
  /\ pushes = <<>>
  /\ samples = [id \in AllIds |-> <<>>]
  /\ stateFile = NoFile
  /\ monitor = [isRunning |-> FALSE, jobs |-> {}]
  /\ runs = {}
  /\ resourceRun = [h \in Handlers |-> <<>>]
  /\ resourceCalls = 0
  /\ timer = NoTimer
  /\ process = ProcessRunning
  /\ cycle = [by \in Launchers |-> EmptyMap]

InitWith(configs) == InitState(configs) /\ buf = newBuffer(1)

\* the check results a Checker may hand over
Results ==
  [healthy : {TRUE}, error : {""}, responseTime : {0}]
    \cup [healthy : {FALSE}, error : {"timeout"}, responseTime : {0}]
HttpResults ==
  [healthy : {TRUE}, error : {""}, responseTime : ResponseTimes]
    \cup [healthy : {FALSE}, error : {"timeout"}, responseTime : {0}]

\* consecutiveFailures stays within the cap when recordFailure runs for id
WithinCap(id) ==
  MapHas(failures, id) => failures[id].consecutiveFailures < MaxFailures

\* ----------------------------------------------------------------- actions
\* the flip times of es that are younger than the flapping window at time t,
\* the last DefaultFlappingThreshold of them
InWindow(es, t) ==
  LET young == SelectSeq(es, LAMBDA e : t - e < windowMs(config))
  IN  IF Len(young) > DefaultFlappingThreshold
      THEN SubSeq(young, Len(young) - DefaultFlappingThreshold + 1, Len(young))
      ELSE young

\* the health of `result` differs from the health last observed for id (a
\* service nothing was observed of yet counts as healthy)
IsFlip(id, result) ==
  IF result.healthy THEN lastResult[id] = "unhealthy"
  ELSE lastResult[id] # "unhealthy"

\* the outage bookkeeping after a recordFailure call for id: the call opens an
\* outage unless the call before it (for id) was a recordFailure too
OutageAfterFailure(id) ==
  [outage EXCEPT ![id] = IF lastCall[id] = "recordFailure"
                         THEN [@ EXCEPT !.calls = @ + 1]
                         ELSE [since |-> now, calls |-> 1]]

\* ... and after a recordRecovery call for id
OutageAfterRecovery(id) == [outage EXCEPT ![id] = NoOutage]

\* Date.now() advances
Tick ==
  /\ ticks < MaxTicks
  /\ now' = now + TickMs
  /\ ticks' = ticks + 1
  /\ lastOp' = Op("tick", NoId, "", "")
  /\ emitted' = <<>>
  /\ edges' = [id \in AllIds |-> InWindow(edges[id], now')]
  /\ UNCHANGED <<config, smVars, responseTimes, lastResult, lastCall, lastAlertAt,
                 stateChanges, sslExpiry, outage, dispVars, compVars>>

\* a direct call stateManager.recordFailure(id, error)
RecordFailure(id, error) ==
  /\ WithinCap(id)
  /\ LET r == recordFailure(failures, config, id, error, now)
     IN  /\ failures' = r.failures
         /\ lastOp' = Op("recordFailure", id, error, r.action)
  /\ lastCall' = [lastCall EXCEPT ![id] = "recordFailure"]
  /\ outage' = OutageAfterFailure(id)
  /\ emitted' = <<>>
  /\ UNCHANGED <<now, config, flapping, acknowledged, responseTimes, lastResult,
                 lastAlertAt, edges, countVars, sslExpiry, dispVars, compVars>>

\* a direct call stateManager.recordRecovery(id)
RecordRecovery(id) ==
  /\ LET r == recordRecovery(failures, id, now)
     IN  /\ failures' = r.failures
         /\ lastOp' = Op("recordRecovery", id, "", r.ret)
  /\ lastCall' = [lastCall EXCEPT ![id] = "recordRecovery"]
  /\ outage' = OutageAfterRecovery(id)
  /\ emitted' = <<>>
  /\ UNCHANGED <<now, config, flapping, acknowledged, responseTimes, lastResult,
                 lastAlertAt, edges, countVars, sslExpiry, dispVars, compVars>>

\* a direct call stateManager.recordStateChange(id, newState)
RecordStateChange(id, newState) ==
  /\ stateChanges < MaxStateChanges
  /\ stateChanges' = stateChanges + 1
  /\ flapping' = recordStateChange(flapping, id, newState, now)
  /\ lastOp' = Op("recordStateChange", id, newState,
                  isFlapping(flapping', config, id, now))
  /\ emitted' = <<>>
  /\ UNCHANGED <<now, config, failures, acknowledged, responseTimes, ghostVars,
                 ticks, sslExpiry, dispVars, compVars>>

\* a direct call stateManager.clearFlappingHistory(id)
ClearFlappingHistory(id) ==
  /\ flapping' = clearFlappingHistory(flapping, id)
  /\ lastOp' = Op("clearFlappingHistory", id, "", "")
  /\ emitted' = <<>>
  /\ UNCHANGED <<now, config, failures, acknowledged, responseTimes, ghostVars,
                 countVars, sslExpiry, dispVars, compVars>>

\* stateManager.acknowledge(id)
Acknowledge(id) ==
  /\ id \notin acknowledged
  /\ acknowledged' = acknowledged \cup {id}
  /\ lastOp' = Op("acknowledge", id, "", "")
  /\ emitted' = <<>>
  /\ UNCHANGED <<now, config, failures, flapping, responseTimes, ghostVars,
                 countVars, sslExpiry, dispVars, compVars>>

\* stateManager.unacknowledge(id)
Unacknowledge(id) ==
  /\ id \in acknowledged
  /\ acknowledged' = acknowledged \ {id}
  /\ lastOp' = Op("unacknowledge", id, "", "")
  /\ emitted' = <<>>
  /\ UNCHANGED <<now, config, failures, flapping, responseTimes, ghostVars,
                 countVars, sslExpiry, dispVars, compVars>>

\* an alert of the up/down pipeline's failure side
IsFailureAlert(a) == a.type \in {"failure", "ssl", "resource"}
HasAlert(es, types) == \E i \in 1..Len(es) : es[i].type \in types

\* what a processed check result of id leaves in the observation variables
Observe(id, result, h) ==
  /\ lastResult' = [lastResult EXCEPT ![id] = HealthOf(result)]
  /\ lastCall' = [lastCall EXCEPT ![id] =
                    IF h.action \in {"first_failure", "ongoing_failure", "suppressed"}
                    THEN "recordFailure"
                    ELSE IF h.action \in {"null", "recovered"} THEN "recordRecovery"
                    ELSE @]
  /\ lastAlertAt' = [lastAlertAt EXCEPT ![id] =
                       IF result.healthy THEN -1
                       ELSE IF HasAlert(h.emitted, {"flapping"}) \/ @ = -2 THEN -2
                       ELSE IF HasAlert(h.emitted, {"failure", "ssl", "resource"})
                            THEN now ELSE @]
  /\ edges' = [edges EXCEPT ![id] =
                 InWindow(IF IsFlip(id, result) THEN Append(@, now) ELSE @, now)]
  /\ outage' = IF h.action \in {"first_failure", "ongoing_failure", "suppressed"}
                THEN OutageAfterFailure(id)
                ELSE IF h.action \in {"null", "recovered"}
                     THEN OutageAfterRecovery(id) ELSE outage

\* checkEndpoint: `if (result.healthy)` guards the AnomalyDetector calls
recordsSample_Always(result) == TRUE
recordsSample(result) == result.healthy

\* the entry of `handed` for a bot.sendMessage call that a command handler
\* makes itself, past sendMessage and the queue
DirectReply == 0 - 1

\* the direct bot.sendMessage calls made so far
DirectCalls == Len(SelectSeq(handed, LAMBDA e : e.message = DirectReply))

\* a method of the notifier passes a text to bot.sendMessage itself, past the
\* queue and its rate limit, and awaits the call: inside a try block whose
\* catch block replies again (kind "inTry"), or where a rejection is only
\* logged (kind "last"); the step is recorded as `op`
Replies(kind, op) ==
  /\ DirectCalls < MaxDirect
  /\ handed' = Append(handed, [message |-> DirectReply, at |-> now])
  /\ commands' = [commands EXCEPT ![kind] = @ + 1]
  /\ lastOp' = op
  /\ emitted' = <<>>
  /\ UNCHANGED <<now, config, flapping, acknowledged, responseTimes, lastResult,
                 lastAlertAt, edges, ticks, stateChanges, sslExpiry, messageQueue,
                 isProcessingQueue, lastSentTime, promises, drain, handlers,
                 compVars>>

\* a command that leaves the monitoring state alone
Command(kind, name) ==
  /\ Replies(kind, Op(name, NoId, "", ""))
  /\ UNCHANGED <<failures, lastCall, outage>>

\* TelegramNotifier.testConnection: the test message is passed to
\* bot.sendMessage; a rejection is logged and answered with `false`
TestConnection == Command("last", "testConnection")

\* TelegramNotifier.handleStartCommand and handleHelpCommand: the reply is
\* passed to bot.sendMessage inside a try block whose catch block only logs
StartCommand == Command("last", "start")
HelpCommand == Command("last", "help")

\* TelegramNotifier.handleStatusCommand of a notifier that has its
\* StateManager: the status is read and the reply passed to bot.sendMessage
\* inside a try block whose catch block replies with the error
StatusCommand == Command("inTry", "status")

\* index.js hands the checkers of the Monitor it constructed to the notifier
SetCheckers ==
  /\ ~commands.checkers
  /\ commands' = [commands EXCEPT !.checkers = TRUE]
  /\ lastOp' = Op("setCheckers", NoId, "", "")
  /\ emitted' = <<>>
  /\ UNCHANGED <<now, config, smVars, responseTimes, ghostVars, countVars,
                 sslExpiry, messageQueue, isProcessingQueue, lastSentTime, drain,
                 handed, promises, handlers, compVars>>

\* the texts after `/restart ` the operator may send: a service whose checker
\* has restart, a PM2 process (PM2Checker has no restart method), a type the
\* handler does not know and a text without a name
WithoutName == <<"docker", "">>
CommandIds == {DockerWeb, Pm2Worker, HttpApi, WithoutName}

\* the way handleRestartCommand takes for the text `id` in a message that has
\* its sender (`from`) or not, restart(name) of DockerChecker or
\* SystemdChecker returning `success`; this.checkers.pm2.restart is not a
\* function, so calling it throws a TypeError inside the try block
restartOutcome(cmds, id, from, success) ==
  IF ~cmds.checkers THEN "unavailable"
  ELSE IF id[1] = "" \/ id[2] = "" THEN "invalid"
  ELSE IF ~from THEN "error"
  ELSE IF id[1] \notin {"docker", "pm2", "systemd"} THEN "unsupported"
  ELSE IF id[1] = "pm2" THEN "error"
  ELSE IF success THEN "success" ELSE "failed"

\* TelegramNotifier.handleRestartCommand: `/restart type:name` of the
\* operator. Without checkers the handler replies and returns; inside the try
\* block a text that is not type:name and a type the handler does not know
\* are answered at once, reading the sender of a message that has none and
\* calling the missing restart of PM2Checker throw (the catch block replies,
\* the FailureRecord stays), and otherwise restart(name) returned `success`: when the
\* restart succeeded the failure is cleared with recordRecovery, and either
\* way the answer is passed to bot.sendMessage. Every answer goes to
\* bot.sendMessage directly
RestartCommand(id, from, success) ==
  LET outcome == restartOutcome(commands, id, from, success)
  IN  /\ IF outcome = "success"
         THEN /\ failures' = recordRecovery(failures, id, now).failures
              /\ lastCall' = [lastCall EXCEPT ![id] = "recordRecovery"]
              /\ outage' = OutageAfterRecovery(id)
         ELSE UNCHANGED <<failures, lastCall, outage>>
      /\ Replies(IF outcome \in {"unavailable", "error"} THEN "last" ELSE "inTry",
                 Op("restart", id, outcome, ""))

\* a direct bot.sendMessage call returns (ok) or throws (~ok): the handler
\* that awaited it returns, or, for a call inside a try block that threw, its
\* catch block logs and passes the error text to bot.sendMessage; a rejection
\* outside a try block is logged (testConnection, handleStartCommand,
\* handleHelpCommand, and process.on('unhandledRejection') of index.js); the
\* reply of a catch block counts among the MaxDirect calls
DirectReturns(kind, ok) ==
  /\ commands[kind] > 0
  /\ (kind = "inTry" /\ ~ok) => DirectCalls < MaxDirect
  /\ IF kind = "inTry" /\ ~ok
     THEN /\ commands' = [commands EXCEPT !.inTry = @ - 1, !.last = @ + 1]
          /\ handed' = Append(handed, [message |-> DirectReply, at |-> now])
     ELSE /\ commands' = [commands EXCEPT ![kind] = @ - 1]
          /\ handed' = handed
  /\ lastOp' = Op("directReturns", NoId, IF ok THEN "sent" ELSE "failed", kind)
  /\ emitted' = <<>>
  /\ UNCHANGED <<now, config, smVars, responseTimes, ghostVars, countVars,
                 sslExpiry, messageQueue, isProcessingQueue, lastSentTime, drain,
                 promises, handlers, compVars>>

\* checkService(service) of the run `by` launched: the Checker threw (its
\* promise rejected) for the service id and the catch block ran
CheckerThrows(by, id) ==
  /\ Run("services", by) \in runs
  /\ MapHas(cycle[by], id)
  /\ cycle[by][id] = "checking"
  /\ LET c == onCheckError(failures, flapping, config, id, now)
     IN  /\ failures' = c.failures
         /\ flapping' = c.flapping
         /\ emitted' = c.emitted
         /\ cycle' = [cycle EXCEPT ![by][id] = c.promise]
         /\ lastOp' = Op("checkerThrows", id, by, c.promise)
  /\ UNCHANGED <<now, config, acknowledged, responseTimes, ghostVars, countVars,
                 sslExpiry, dispVars, buf, pushes, samples, stateFile, monitor,
                 runs, resourceRun, resourceCalls, timer, process>>

\* expiryDate.toISOString(): the ISO string of a date given in milliseconds
toISOString(date) == <<"iso", date>>

\* the certificate expiry dates (ms) and domains updateSSLExpiry is called with
ExpiryDates == {5 * 24 * 3600 * 1000, 20 * 24 * 3600 * 1000}
Domains == {"site.example"}

\* a direct call stateManager.updateSSLExpiry(domain, expiryDate)
UpdateSSLExpiry(domain, expiryDate) ==
  /\ MapHas(sslExpiry, domain) => sslExpiry[domain] # toISOString(expiryDate)
  /\ sslExpiry' = MapSet(sslExpiry, domain, toISOString(expiryDate))
  /\ lastOp' = Op("updateSSLExpiry", NoId, domain, "")
  /\ emitted' = <<>>
  /\ UNCHANGED <<now, config, smVars, responseTimes, ghostVars, countVars,
                 dispVars, compVars>>

\* ------------------------------------------------- the dispatcher at work
\* the monitoring state that the dispatcher does not touch
engineVars == <<config, failures, acknowledged, responseTimes, sslExpiry,
                lastResult, lastCall, lastAlertAt, edges, outage, stateChanges>>

\* the number of sendMessage calls made so far
Enqueued == Cardinality(DOMAIN promises)

\* the clock advances by SendTickMs: within the budget of clock steps, and
\* beyond it for a sleeping drain loop whose timer is not due yet
SendTick ==
  /\ \/ ticks < MaxSendTicks
     \/ /\ drain.pc = "sleeping"
        /\ ~timerDue(drain.sleepFrom, drain.sleepFor, now)
  /\ now' = now + SendTickMs
  /\ ticks' = IF ticks < MaxSendTicks THEN ticks + 1 ELSE ticks
  /\ lastOp' = Op("tick", NoId, "", "")
  /\ emitted' = <<>>
  /\ UNCHANGED <<engineVars, flapping, dispVars, compVars>>

\* a notifier method calls sendMessage(message)
SendMessage ==
  /\ Enqueued < MaxMessages
  /\ LET m == Enqueued + 1
         r == sendMessage(messageQueue, isProcessingQueue, drain, lastSentTime,
                          m, now)
     IN  /\ messageQueue' = r.queue
         /\ isProcessingQueue' = r.processing
         /\ drain' = r.drain
         /\ handed' = handedAfter(handed, r.call, now)
         /\ promises' = MapSet(promises, m, "pending")
  /\ lastOp' = Op("sendMessage", NoId, "", "")
  /\ emitted' = <<>>
  /\ UNCHANGED <<now, ticks, engineVars, flapping, lastSentTime, handlers,
                 commands, compVars>>

\* the timer of sleep() fires: the drain loop resumes, shifts the head of the
\* queue and calls bot.sendMessage
TimerFires ==
  /\ drain.pc = "sleeping"
  /\ timerDue(drain.sleepFrom, drain.sleepFor, now)
  /\ LET r == sendNext(messageQueue)
     IN  /\ messageQueue' = r.queue
         /\ isProcessingQueue' = r.processing
         /\ drain' = r.drain
         /\ handed' = handedAfter(handed, r.call, now)
  /\ lastOp' = Op("timer", NoId, "", "")
  /\ emitted' = <<>>
  /\ UNCHANGED <<now, ticks, engineVars, flapping, lastSentTime, promises,
                 handlers, commands, compVars>>

\* the sendMessage calls the check-result handlings of the Scheduler may make
MaxAlerts == 4

\* the result a handling that got past `if (result.healthy)` goes on with
HealthyResult == [healthy |-> TRUE, error |-> "", responseTime |-> 0]

\* the handling that awaits message m goes on after the promise of m settled
\* (sendFailureAlert and the other notifier methods catch a rejection), and
\* a checkService call whose handling returned is over: the
\* rest of handleRecovery clears the flap history; the rest of checkEndpoint
\* after handleAnomaly passes the result to handleCheckResult, which runs up to
\* the notifier call it awaits (message `next`), or to its end; `id` is the
\* service of that handling and `ran` the part of it that ran
settle(fs, fl, ack, cfg, hs, m, next, t) ==
  LET waiting == {h \in Handlers : hs[h].pc = "awaiting" /\ hs[h].message = m}
  IN  IF waiting = {}
      THEN [handlers |-> hs, failures |-> fs, flapping |-> fl, emitted |-> <<>>,
            action |-> "", id |-> NoId, ran |-> ""]
      ELSE LET h == CHOOSE w \in waiting : TRUE
               id == hs[h].id
               b == handleCheckResultBegin(fs, fl, ack, cfg, id, HealthyResult, t)
           IN  IF hs[h].rest = "handleCheckResult"
               THEN [handlers |->
                       [hs EXCEPT ![h] =
                          IF b.emitted # <<>>
                          THEN [pc |-> "awaiting", id |-> id, rest |-> b.rest,
                                message |-> next]
                          ELSE HandlerIdle],
                     failures |-> b.failures, flapping |-> b.flapping,
                     emitted |-> b.emitted, action |-> b.action, id |-> id,
                     ran |-> "handleCheckResult"]
               ELSE [handlers |-> [hs EXCEPT ![h] = HandlerIdle],
                     failures |-> fs,
                     flapping |-> IF hs[h].rest = "clearFlappingHistory"
                                  THEN clearFlappingHistory(fl, id) ELSE fl,
                     emitted |-> <<>>, action |-> "", id |-> id,
                     ran |-> hs[h].rest]

\* bot.sendMessage returns (ok) or throws (~ok): the promise of the message is
\* resolved or rejected and the drain loop goes round to its next suspension;
\* then the handling that awaited the message goes on, and a notifier call it
\* makes on the way is a sendMessage call on the queue the loop left
TransportReturns(ok) ==
  /\ drain.pc = "sending"
  /\ LET m == drain.message
         last == IF ok THEN now ELSE lastSentTime
         r == runLoop(messageQueue, last, now)
         next == Enqueued + 1
         c == settle(failures, flapping, acknowledged, config, handlers, m, next,
                     now)
         alerts == c.emitted # <<>>
         s == IF alerts
              THEN sendMessage(r.queue, r.processing, r.drain, last, next, now)
              ELSE [queue |-> r.queue, processing |-> r.processing,
                    drain |-> r.drain, call |-> NoMessage]
         settled == [promises EXCEPT ![m] = IF ok THEN "resolved" ELSE "rejected"]
     IN  /\ alerts => Enqueued < MaxAlerts
         /\ lastSentTime' = last
         /\ promises' = IF alerts THEN MapSet(settled, next, "pending") ELSE settled
         /\ messageQueue' = s.queue
         /\ isProcessingQueue' = s.processing
         /\ drain' = s.drain
         /\ handed' = handedAfter(handedAfter(handed, r.call, now), s.call, now)
         /\ handlers' = c.handlers
         /\ cycle' = afterHandlings(cycle, c.handlers)
         /\ failures' = c.failures
         /\ flapping' = c.flapping
         /\ emitted' = c.emitted
         /\ lastOp' = Op("transport", c.id, IF ok THEN "sent" ELSE "failed", c.ran)
         /\ IF c.action # "" THEN Observe(c.id, HealthyResult, c)
            ELSE UNCHANGED ghostVars
  /\ UNCHANGED <<now, ticks, config, acknowledged, responseTimes, sslExpiry,
                 stateChanges, commands, buf, pushes, samples, stateFile,
                 monitor, runs, resourceRun, resourceCalls, timer, process>>

\* no check-result handling is in progress
NoneInProgress == \A h \in Handlers : handlers[h].pc = "idle"

\* the slot a check-result handling of the Scheduler starts in
FreeSlot == IF handlers["h1"].pc = "idle" THEN "h1" ELSE "h2"

\* handleCheckResult(id, service, result), up to the notifier call it awaits,
\* or to its end; a handling that awaits is suspended in slot h, one that
\* awaits nothing has returned and takes no slot; the step is recorded as
\* `kind`, and `cap` bounds the sendMessage calls
Handle(kind, cap, h, id, result) ==
  /\ ~result.healthy => WithinCap(id)
  /\ LET b == handleCheckResultBegin(failures, flapping, acknowledged, config,
                                     id, result, now)
         alerts == b.emitted # <<>>
         m == Enqueued + 1
         r == IF alerts
              THEN sendMessage(messageQueue, isProcessingQueue, drain,
                               lastSentTime, m, now)
              ELSE [queue |-> messageQueue, processing |-> isProcessingQueue,
                    drain |-> drain, call |-> NoMessage]
     IN  /\ alerts => handlers[h].pc = "idle"
         /\ alerts => Enqueued < cap
         /\ failures' = b.failures
         /\ flapping' = b.flapping
         /\ emitted' = b.emitted
         /\ messageQueue' = r.queue
         /\ isProcessingQueue' = r.processing
         /\ drain' = r.drain
         /\ handed' = handedAfter(handed, r.call, now)
         /\ promises' = IF alerts THEN MapSet(promises, m, "pending") ELSE promises
         /\ handlers' = IF alerts
                        THEN [handlers EXCEPT ![h] =
                                [pc |-> "awaiting", id |-> id, rest |-> b.rest,
                                 message |-> m]]
                        ELSE handlers
         /\ lastOp' = Op(kind, id, HealthOf(result), b.action)
         /\ Observe(id, result, b)
  /\ UNCHANGED <<now, config, acknowledged, countVars, sslExpiry, lastSentTime,
                 commands, buf, pushes, samples, stateFile, monitor, runs, timer,
                 process>>

\* handleCheckResult(id, service, result) in the free slot h of a run that
\* is watched together with the dispatcher
Handling(h, id, result) ==
  /\ handlers[h].pc = "idle"
  /\ Handle("startHandling", MaxMessages, h, id, result)
  /\ UNCHANGED <<responseTimes, cycle>>

\* checkService(service) in slot h: the Checker returned `result` and
\* handleCheckResult ran up to the notifier call it awaits, or to its end
StartHandling(h, id, result) ==
  Handling(h, id, result) /\ UNCHANGED <<resourceRun, resourceCalls>>

\* checkService / checkSSLCert: the Checker returned `result` for id and
\* handleCheckResult(id, service, result) ran up to the notifier call it
\* awaits, or to its end; the handling goes on when the transport returns.
\* The results arrive while a slot is free: at most two handlings overlap
HandleCheckResult(id, result) ==
  /\ handlers[FreeSlot].pc = "idle"
  /\ Handle("handleCheckResult", MaxAlerts, FreeSlot, id, result)
  /\ UNCHANGED <<responseTimes, resourceRun, resourceCalls, cycle>>

\* checkService(service) of the run `by` launched: the Checker returned
\* `result` for the service id and handleCheckResult ran up to the notifier
\* call it awaits (in the free slot), or to its end, which fulfils the
\* promise of the call
CheckService(by, id, result) ==
  /\ Run("services", by) \in runs
  /\ MapHas(cycle[by], id)
  /\ cycle[by][id] = "checking"
  /\ Handle("handleCheckResult", MaxServiceAlerts, FreeSlot, id, result)
  /\ cycle' = [cycle EXCEPT ![by][id] =
                 IF emitted' # <<>> THEN FreeSlot
                 ELSE "fulfilled"]
  /\ UNCHANGED <<responseTimes, resourceRun, resourceCalls>>

\* checkEndpoint(endpoint): the HTTP Checker returned `result`; a healthy
\* result is recorded and tested, and for an anomaly the method is suspended
\* in `await this.handleAnomaly(...)` with handleCheckResult still to run;
\* otherwise handleCheckResult runs at once
CheckEndpoint(id, result) ==
  LET rts == IF recordsSample(result)
             THEN recordResponseTime(responseTimes, config, id, result.responseTime)
             ELSE responseTimes
      anomaly == IF result.healthy
                 THEN checkAnomaly(rts, config, id, result.responseTime)
                 ELSE [isAnomaly |-> FALSE, reason |-> "unhealthy"]
      ea == IF anomaly.isAnomaly THEN handleAnomaly(id) ELSE <<>>
      h == FreeSlot
      m == Enqueued + 1
      r == sendMessage(messageQueue, isProcessingQueue, drain, lastSentTime, m, now)
  IN  IF ea # <<>>
      THEN /\ handlers[h].pc = "idle"
           /\ Enqueued < MaxAlerts
           /\ responseTimes' = rts
           /\ emitted' = ea
           /\ messageQueue' = r.queue
           /\ isProcessingQueue' = r.processing
           /\ drain' = r.drain
           /\ handed' = handedAfter(handed, r.call, now)
           /\ promises' = MapSet(promises, m, "pending")
           /\ handlers' = [handlers EXCEPT ![h] =
                             [pc |-> "awaiting", id |-> id,
                              rest |-> "handleCheckResult", message |-> m]]
           /\ lastOp' = Op("checkEndpoint", id, HealthOf(result), "anomaly")
           /\ UNCHANGED <<now, config, smVars, ghostVars, countVars, sslExpiry,
                          lastSentTime, commands, compVars>>
      ELSE /\ handlers[h].pc = "idle"
           /\ responseTimes' = rts
           /\ Handle("checkEndpoint", MaxAlerts, h, id, result)
           /\ UNCHANGED <<resourceRun, resourceCalls, cycle>>

\* the clock over a short stretch of time
ApiTick == ticks < MaxApiTicks /\ Tick

\* the clock steps while the Scheduler is watched together with the dispatcher
MaxWatchTicks == 3
WatchTick == ticks < MaxWatchTicks /\ Tick

\* bot.sendMessage returns: the Telegram API accepted the message
Delivered == TransportReturns(TRUE)

\* the queued messages whose bot.sendMessage call threw
Rejected == Cardinality({m \in DOMAIN promises : promises[m] = "rejected"})

\* bot.sendMessage throws for a queued message: processQueue logs, rejects
\* the promise of the message and goes on with the queue
Refused == Rejected < MaxRejected /\ TransportReturns(FALSE)

\* the results ResourceChecker.checkAll() may return
ResourceResults == [disk : Results, ram : Results, cpu : Results]

\* the checkResources() calls of a behaviour
MaxResourceRuns == 2

\* the sendMessage calls those runs may make: one for each of their results
MaxRunMessages == 3 * MaxResourceRuns

\* the slot a resource run starts in: the first one in which no handling is
\* in progress and no run has results left
RunSlot ==
  IF handlers["h1"].pc = "idle" /\ resourceRun["h1"] = <<>> THEN "h1" ELSE "h2"

\* handleCheckResult(id, service, result) awaited by the resource run of slot h
ResourceHandling(h, id, result) ==
  /\ Handle("startHandling", MaxRunMessages, h, id, result)
  /\ UNCHANGED <<responseTimes, cycle>>

\* checkResources(), called by the warm-up or by the cron job at every firing,
\* whether or not an earlier run is still suspended on an alert: checkAll()
\* returned `results`; the disk result is passed to handleCheckResult, and
\* the RAM and CPU results wait for that call to return
CheckResources(results) ==
  LET h == RunSlot
  IN  /\ resourceCalls < MaxResourceRuns
      /\ resourceCalls' = resourceCalls + 1
      /\ ResourceHandling(h, ResourceDisk, results.disk)
      /\ resourceRun' = [resourceRun EXCEPT ![h] =
                           <<[id |-> ResourceRam, result |-> results.ram],
                             [id |-> ResourceCpu, result |-> results.cpu]>>]

\* the run of slot h goes on after `await this.handleCheckResult(...)`
\* returned: its next result is passed to handleCheckResult
ResourceRunContinues(h) ==
  /\ resourceRun[h] # <<>>
  /\ handlers[h].pc = "idle"
  /\ ResourceHandling(h, Head(resourceRun[h]).id, Head(resourceRun[h]).result)
  /\ resourceRun' = [resourceRun EXCEPT ![h] = Tail(@)]
  /\ UNCHANGED resourceCalls

\* ------------------------------------------------ the CircularBuffer at work
\* the values pushed into the buffer under test
BufferValues == {100, 250, 400}

\* a fraction as the text "num/den"
Shows(fraction) == ToString(fraction.num) \o "/" \o ToString(fraction.den)

\* buf.push(value)
Push(value) ==
  /\ Len(pushes) < MaxPushes
  /\ buf' = push(buf, value)
  /\ pushes' = Append(pushes, value)
  /\ lastOp' = Op("push", NoId, "", "")
  /\ emitted' = <<>>
  /\ UNCHANGED <<now, config, smVars, responseTimes, ghostVars, countVars,
                 sslExpiry, dispVars, samples, stateFile, schedVars>>

\* buf.clear()
Clear ==
  /\ pushes # <<>>
  /\ buf' = clear(buf)
  /\ pushes' = <<>>
  /\ lastOp' = Op("clear", NoId, "", "")
  /\ emitted' = <<>>
  /\ UNCHANGED <<now, config, smVars, responseTimes, ghostVars, countVars,
                 sslExpiry, dispVars, samples, stateFile, schedVars>>

\* buf.getMedian(): sort() orders the array getAll() returned, a copy
GetMedian ==
  /\ lastOp.kind # "getMedian"
  /\ lastOp' = Op("getMedian", NoId, "", Shows(getMedian(buf)))
  /\ emitted' = <<>>
  /\ UNCHANGED <<now, config, smVars, responseTimes, ghostVars, countVars,
                 sslExpiry, dispVars, compVars>>

\* buf = CircularBuffer.fromJSON(buf.toJSON()): the buffer is replaced by the
\* one restored from its serialised form
Restore ==
  /\ lastOp.kind # "fromJSON"
  /\ buf' = fromJSON(toJSON(buf))
  /\ lastOp' = Op("fromJSON", NoId, "", "")
  /\ emitted' = <<>>
  /\ UNCHANGED <<now, config, smVars, responseTimes, ghostVars, countVars,
                 sslExpiry, dispVars, pushes, samples, stateFile, schedVars>>

\* ----------------------------------------------- the AnomalyDetector at work
\* the response times checkAnomaly is asked about
CheckedTimes == {100, 300, 400, 900, 1300}

\* a direct call anomalyDetector.recordResponseTime(id, responseTime)
RecordResponseTime(id, responseTime) ==
  /\ Len(samples[id]) < MaxSamples
  /\ responseTimes' = recordResponseTime(responseTimes, config, id, responseTime)
  /\ samples' = [samples EXCEPT ![id] = Append(@, responseTime)]
  /\ lastOp' = Op("recordResponseTime", id, ToString(responseTime), "")
  /\ emitted' = <<>>
  /\ UNCHANGED <<now, config, smVars, ghostVars, countVars, sslExpiry, dispVars,
                 buf, pushes, stateFile, schedVars>>

\* a direct call anomalyDetector.checkAnomaly(id, responseTime); it only reads
CheckAnomaly(id, responseTime) ==
  /\ LET r == checkAnomaly(responseTimes, config, id, responseTime)
     IN  lastOp' = Op("checkAnomaly", id, ToString(responseTime),
                      IF r.isAnomaly THEN "anomaly"
                      ELSE IF r.reason = "" THEN "normal" ELSE r.reason)
  /\ emitted' = <<>>
  /\ UNCHANGED <<now, config, smVars, responseTimes, ghostVars, countVars,
                 sslExpiry, dispVars, compVars>>

\* a direct call anomalyDetector.clearHistory(id)
ClearHistory(id) ==
  /\ responseTimes' = clearHistory(responseTimes, id)
  /\ samples' = [samples EXCEPT ![id] = <<>>]
  /\ lastOp' = Op("clearHistory", id, "", "")
  /\ emitted' = <<>>
  /\ UNCHANGED <<now, config, smVars, ghostVars, countVars, sslExpiry, dispVars,
                 buf, pushes, stateFile, schedVars>>

\* the snapshots anomalyDetector.fromJSON is called with: none, or one of the
\* endpoint's buffer as a detector of sampleSize 3, 5 or 20 exported it, or
\* one whose size is not positive
SnapshotSizes == {3, 5, 20}
SnapshotValues == {<<100, 100, 100>>, <<400, 400, 400, 400, 400>>}
InvalidSnapshot == [size |-> 0, values |-> <<>>]
Snapshots ==
  {EmptyMap}
    \cup {MapSet(EmptyMap, id, j) :
            id \in HttpIds,
            j \in {InvalidSnapshot}
                    \cup {toJSON(pushEach(newBuffer(n), v)) :
                            n \in SnapshotSizes, v \in SnapshotValues}}

\* a direct call anomalyDetector.fromJSON(data): the samples of a restored
\* buffer are the samples recorded for its id from then on
RestoreHistory(data) ==
  /\ responseTimes' = AnomalyDetector_fromJSON(responseTimes, data)
  /\ samples' = [id \in DOMAIN samples |->
                   IF MapHas(data, id) /\ data[id].size > 0
                   THEN data[id].values ELSE samples[id]]
  /\ lastOp' = Op("restoreHistory", NoId,
                  IF data = EmptyMap THEN "none"
                  ELSE IF \E id \in DOMAIN data : data[id].size <= 0
                       THEN "invalid" ELSE "buffers",
                  IF data = EmptyMap THEN ""
                  ELSE ToString(data[CHOOSE id \in DOMAIN data : TRUE].size))
  /\ emitted' = <<>>
  /\ UNCHANGED <<now, config, smVars, ghostVars, countVars, sslExpiry, dispVars,
                 buf, pushes, stateFile, schedVars>>

\* -------------------------------------------------- the state file at work
\* the collections of the state file
Collections == {"failures", "flapping", "acknowledged", "sslExpiry"}

\* stateManager.save(): a direct call, the auto-save timer the constructor
\* sets (every 60 s), or shutdown()
Save(outcome) ==
  /\ stateFile' = save(stateFile, failures, flapping, acknowledged, sslExpiry,
                       outcome)
  /\ lastOp' = Op("save", NoId, outcome,
                  IF outcome = "written" THEN "written" ELSE "failed")
  /\ emitted' = <<>>
  /\ UNCHANGED <<now, config, smVars, responseTimes, ghostVars, countVars,
                 sslExpiry, dispVars, buf, pushes, samples, schedVars>>

\* new StateManager(statePath, config) on the same path (the next process,
\* or a second manager beside the first): the variables are from here on
\* those of the new manager
Construct ==
  /\ LET l == load(stateFile)
     IN  /\ failures' = l.state.failures
         /\ flapping' = l.state.flapping
         /\ acknowledged' = l.state.acknowledged
         /\ sslExpiry' = l.state.sslExpiry
         /\ lastOp' = Op("construct", NoId, l.outcome, "returned")
  /\ lastCall' = [id \in AllIds |-> "none"]
  /\ outage' = [id \in AllIds |-> NoOutage]
  /\ emitted' = <<>>
  /\ UNCHANGED <<now, config, responseTimes, lastResult, lastAlertAt, edges,
                 countVars, dispVars, compVars>>

\* a file that save() wrote is changed from outside the program: its
\* permissions, its text, or one stored collection
DamageFile(damage) ==
  /\ stateFile.exists /\ stateFile.readable /\ stateFile.parses
  /\ \A c \in Collections : stateFile.data[c].iterable
  /\ stateFile' = IF damage = "unreadable" THEN UnreadableFile
                  ELSE IF damage = "invalid" THEN InvalidFile
                  ELSE [stateFile EXCEPT !.data[damage] = NotIterable]
  /\ lastOp' = Op("damage", NoId, damage, "")
  /\ emitted' = <<>>
  /\ UNCHANGED <<now, config, smVars, responseTimes, ghostVars, countVars,
                 sslExpiry, dispVars, buf, pushes, samples, schedVars>>

\* ---------------------------------------------------- the Monitor's timers
\* monitor.start(), up to `await this.runInitialChecks()`: the four cron jobs
\* are scheduled and the warm-up runs are launched
Start ==
  /\ ~monitor.isRunning
  /\ monitor' = [isRunning |-> TRUE, jobs |-> Categories]
  /\ runs' = runs \cup {Run(c, "start") : c \in initialChecks}
  /\ cycle' = launch(cycle, config, "services", "start")
  /\ lastOp' = Op("start", NoId, "", "")
  /\ emitted' = <<>>
  /\ UNCHANGED <<now, config, smVars, responseTimes, ghostVars, countVars,
                 sslExpiry, dispVars, buf, pushes, samples, stateFile,
                 resourceRun, resourceCalls, timer, process>>

\* the runs of category c a firing of its cron job may still launch
FreeTimers(c) == {k \in 1..MaxTimerRuns : Run(c, TimerRun(k)) \notin runs}

\* the first of them
NextTimer(c) ==
  TimerRun(CHOOSE k \in FreeTimers(c) : \A j \in FreeTimers(c) : k <= j)

\* the runs that go on to their end in the turn of the event loop they are
\* in: checkServices once its Promise.allSettled has settled, checkEndpoints
\* and checkSSL with no endpoint and no site configured
Settled ==
  {run \in runs : IF run.category = "services" THEN allSettled(cycle, run.by)
                  ELSE run.category \in {"endpoints", "ssl"}}

\* the cron job of category c fires: its check method is called, whether or
\* not the run of an earlier firing is still in progress
CronFires(c) ==
  /\ c \in monitor.jobs
  /\ FreeTimers(c) # {}
  /\ runs' = runs \cup {Run(c, NextTimer(c))}
  /\ cycle' = launch(cycle, config, c, NextTimer(c))
  /\ lastOp' = Op("cron", NoId, c, NextTimer(c))
  /\ emitted' = <<>>
  /\ UNCHANGED <<now, config, smVars, responseTimes, ghostVars, countVars,
                 sslExpiry, dispVars, buf, pushes, samples, stateFile, monitor,
                 resourceRun, resourceCalls, timer, process>>

\* the promise of a check method settles: the run is over (for
\* checkServices, Promise.allSettled over the checkService calls has settled
\* and the rejected ones were counted)
RunSettles(run) ==
  /\ run \in runs
  /\ run.category = "services" => allSettled(cycle, run.by)
  /\ runs' = runs \ {run}
  /\ cycle' = IF run.category = "services"
              THEN [cycle EXCEPT ![run.by] = EmptyMap] ELSE cycle
  /\ lastOp' = Op("settled", NoId, run.category, run.by)
  /\ emitted' = <<>>
  /\ UNCHANGED <<now, config, smVars, responseTimes, ghostVars, countVars,
                 sslExpiry, dispVars, buf, pushes, samples, stateFile, monitor,
                 resourceRun, resourceCalls, timer, process>>

\* monitor.stop(): the cron jobs are stopped; runs in progress go on
Stop ==
  /\ monitor.isRunning
  /\ monitor' = [isRunning |-> FALSE, jobs |-> {}]
  /\ lastOp' = Op("stop", NoId, "", "")
  /\ emitted' = <<>>
  /\ UNCHANGED <<now, config, smVars, responseTimes, ghostVars, countVars,
                 sslExpiry, dispVars, buf, pushes, samples, stateFile, runs,
                 resourceRun, resourceCalls, timer, process, cycle>>

\* ---------------------------------------------------------- specifications
\* the failure / recovery API of the StateManager, called directly
InitFail == InitWith({DefaultConfig, ShortConfig})
NextFail ==
  \/ \E id \in SMIds, e \in Errors : RecordFailure(id, e)
  \/ \E id \in SMIds : RecordRecovery(id)
  \/ Tick
SpecFail == InitFail /\ [][NextFail]_vars

\* the flap-detection API of the StateManager, called directly
InitFlap == InitWith({DefaultConfig, ShortConfig, WideConfig})
NextFlap ==
  \/ \E id \in SMIds, s \in HealthStates : RecordStateChange(id, s)
  \/ \E id \in SMIds : ClearFlappingHistory(id)
  \/ Tick
SpecFlap == InitFlap /\ [][NextFlap]_vars

\* the Scheduler passing the check results of a service to handleCheckResult,
\* with the dispatcher that carries the alerts: a handling is suspended on its
\* alert and goes on when bot.sendMessage has returned, and up to two
\* handlings overlap; the Telegram API accepts every message here (a transport
\* that throws is part of Spec, SpecDisp, SpecAsync, SpecRes and SpecShutdown)
InitMon == InitWith({DefaultConfig, ShortConfig})
NextMon ==
  \/ \E id \in MonIds, r \in Results : HandleCheckResult(id, r)
  \/ Delivered
  \/ TimerFires
  \/ Tick
SpecMon == InitMon /\ [][NextMon]_vars

\* ... while the services are acknowledged and unacknowledged
NextAck ==
  \/ \E id \in AckIds, r \in Results : HandleCheckResult(id, r)
  \/ \E id \in AckIds : Acknowledge(id)
  \/ \E id \in AckIds : Unacknowledge(id)
  \/ Delivered
  \/ TimerFires
  \/ WatchTick
SpecAck == InitMon /\ [][NextAck]_vars

\* one HTTP endpoint with anomaly detection, checked at every firing of the
\* cron job (a run may reach the endpoint while the run before it is still
\* suspended on its alert) and acknowledged at some moment, under a
\* configuration that detects over five samples and notifies recoveries
HttpConfig == [ShortConfig EXCEPT !.recoveryNotify = TRUE]
InitHttp == InitWith({HttpConfig})
NextHttp ==
  \/ \E id \in HttpIds, r \in HttpResults : CheckEndpoint(id, r)
  \/ \E id \in HttpIds : Acknowledge(id)
  \/ Delivered
  \/ TimerFires
  \/ ApiTick
SpecHttp == InitHttp /\ [][NextHttp]_vars

\* the Monitor exists and its checkers were handed to the notifier
Started == commands.checkers

\* consecutiveFailures stays within the cap of the specifications that keep
\* the state file beside the StateManager
ApiCap(id) ==
  MapHas(failures, id) => failures[id].consecutiveFailures < MaxApiFailures

\* services.docker: [{ name: 'web' }], nothing else to check
ContainerConfig == [DefaultConfig EXCEPT !.services = {DockerWeb}]

\* TelegramNotifier.sendStartupNotification, which Watchdog.start calls when
\* `await this.monitor.start()` returned (the warm-up runs have settled): the
\* text is passed to sendMessage
SendStartupNotification ==
  /\ monitor.isRunning
  /\ ~process.startup
  /\ \A c \in initialChecks : Run(c, "start") \notin runs
  /\ LET m == Enqueued + 1
         r == sendMessage(messageQueue, isProcessingQueue, drain, lastSentTime,
                          m, now)
     IN  /\ messageQueue' = r.queue
         /\ isProcessingQueue' = r.processing
         /\ drain' = r.drain
         /\ handed' = handedAfter(handed, r.call, now)
         /\ promises' = MapSet(promises, m, "pending")
  /\ process' = [process EXCEPT !.startup = TRUE]
  /\ lastOp' = Op("startupNotification", NoId, "", "")
  /\ emitted' = <<>>
  /\ UNCHANGED <<now, config, smVars, responseTimes, ghostVars, countVars,
                 sslExpiry, lastSentTime, handlers, commands, buf, pushes,
                 samples, stateFile, monitor, runs, resourceRun, resourceCalls,
                 timer, cycle>>

\* the clock advances by TickMs, a multiple of the 60 s of the timer the
\* StateManager's constructor set: the timer fired and save() ran, the last
\* writeFileSync of the stretch doing `outcome`
AutoSaveTick(outcome) ==
  /\ ticks < MaxApiTicks
  /\ now' = now + TickMs
  /\ ticks' = ticks + 1
  /\ stateFile' = save(stateFile, failures, flapping, acknowledged, sslExpiry,
                       outcome)
  /\ lastOp' = Op("tick", NoId, outcome, "")
  /\ emitted' = <<>>
  /\ edges' = [id \in AllIds |-> InWindow(edges[id], now')]
  /\ UNCHANGED <<config, smVars, responseTimes, lastResult, lastCall, lastAlertAt,
                 stateChanges, sslExpiry, outage, dispVars, buf, pushes, samples,
                 schedVars>>

\* the program as index.js wires it: the connection test and the commands of
\* the operator from the construction of the notifier on; once the Monitor is
\* constructed, monitor.start() with its warm-up runs, the cron jobs firing,
\* every checkServices run checking the configured services, whose Checkers
\* return or throw, and the startup notification; the auto-save timer of the
\* StateManager; a call of bot.sendMessage returns or throws (nothing in the
\* repository calls acknowledge). A firing of the cron job launches a run
\* whether or not the run before it is over, up to MaxTimerRuns of them at
\* a time. The Checkers of the services run their command synchronously
\* (safeExec), so the services of a run are handled up to the notifier call
\* they await in the turn of the event loop that launched the run, and a
\* run with nothing left to wait for (the warm-up runs of the endpoints and
\* of the resources among them) settles in the turn it is in: nothing else
\* happens in between
Init == InitWith({ContainerConfig})
OneMore == DirectCalls < MaxCommands
Settling == Settled \cup {run \in runs : run.category = "resources"}
Checking ==
  {by \in Launchers : \E id \in DOMAIN cycle[by] : cycle[by][id] = "checking"}
Next ==
  \/ \E run \in Settling : RunSettles(run)
  \/ /\ Settling = {}
     /\ \/ \E by \in Checking, id \in OpsIds, r \in Results :
             (r.healthy \/ ApiCap(id)) /\ CheckService(by, id, r)
        \/ \E by \in Checking, id \in OpsIds : CheckerThrows(by, id)
  \/ /\ Settling = {}
     /\ Checking = {}
     /\ \/ SetCheckers
        \/ Started /\ Start
        \/ CronFires("services")
        \/ SendStartupNotification
        \/ OneMore /\ TestConnection
        \/ OneMore /\ StartCommand
        \/ OneMore /\ HelpCommand
        \/ OneMore /\ StatusCommand
        \/ \E id \in CommandIds, from \in BOOLEAN, success \in BOOLEAN :
             OneMore /\ RestartCommand(id, from, success)
        \/ \E kind \in {"inTry", "last"}, ok \in BOOLEAN : DirectReturns(kind, ok)
        \/ Delivered
        \/ Refused
        \/ TimerFires
        \/ \E outcome \in SaveOutcomes : AutoSaveTick(outcome)
Spec == Init /\ [][Next]_vars

\* services.docker: [{ name: 'web' }] and services.pm2: [{ name: 'worker' }]
ServicesConfig == [DefaultConfig EXCEPT !.services = {DockerWeb, Pm2Worker}]

\* the Monitor started with two services: the warm-up run and the runs of the
\* cron job check both, the Checker of either returning a result or
\* throwing, and the alerts go through the dispatcher, whose transport
\* returns or throws; the runs of the cron job overlap, up to MaxTimerRuns
\* of them at a time; the services of a run are handled up to the notifier
\* call they await in the turn of the event loop that launched the run, and
\* a run with nothing left to wait for settles in the turn it is in
InitCycle == InitWith({ServicesConfig})
NextCycle ==
  \/ \E run \in Settling : RunSettles(run)
  \/ /\ Settling = {}
     /\ \/ \E by \in Checking, id \in ServicesConfig.services, r \in Results :
             CheckService(by, id, r)
        \/ \E by \in Checking, id \in ServicesConfig.services :
             CheckerThrows(by, id)
  \/ /\ Settling = {}
     /\ Checking = {}
     /\ \/ Start
        \/ CronFires("services")
        \/ Delivered
        \/ Refused
        \/ TimerFires
        \/ ApiTick
SpecCycle == InitCycle /\ [][NextCycle]_vars

\* the whole StateManager API called directly, on one id and over a short
\* stretch of time
InitSM == InitWith({ShortConfig})
NextSM ==
  \/ \E id \in ApiIds : ApiCap(id) /\ RecordFailure(id, "timeout")
  \/ \E id \in ApiIds : RecordRecovery(id)
  \/ \E id \in ApiIds, s \in HealthStates :
       stateChanges < MaxApiStateChanges /\ RecordStateChange(id, s)
  \/ \E id \in ApiIds : Acknowledge(id)
  \/ \E id \in ApiIds : Unacknowledge(id)
  \/ \E d \in Domains, e \in ExpiryDates : UpdateSSLExpiry(d, e)
  \/ \E id \in ApiIds : ClearFlappingHistory(id)
  \/ \E outcome \in SaveOutcomes : Save(outcome)
  \/ Construct
  \/ ApiTick
SpecSM == InitSM /\ [][NextSM]_vars

\* the Notification Dispatcher: sendMessage calls, the drain loop, the
\* transport and the clock
InitDisp == InitWith({DefaultConfig})
NextDisp ==
  \/ SendMessage
  \/ TimerFires
  \/ \E ok \in BOOLEAN : TransportReturns(ok)
  \/ SendTick
SpecDisp == InitDisp /\ [][NextDisp]_vars

\* ... with a transport whose calls all return, timers that fire and a clock
\* that advances
FairDisp ==
  /\ WF_vars(TimerFires)
  /\ WF_vars(\E ok \in BOOLEAN : TransportReturns(ok))
  /\ WF_vars(SendTick)
SpecDispLive == SpecDisp /\ FairDisp

\* check results handled concurrently, their alerts awaited from the dispatcher
InitAsync == InitWith({DefaultConfig})
NextAsync ==
  \/ \E h \in Handlers, id \in OpsIds, r \in Results : StartHandling(h, id, r)
  \/ TimerFires
  \/ \E ok \in BOOLEAN : TransportReturns(ok)
  \/ SendTick
SpecAsync == InitAsync /\ [][NextAsync]_vars

\* one CircularBuffer of a small capacity: pushes, clear, getMedian and the
\* round trip through toJSON / fromJSON
InitBuf ==
  /\ InitState({DefaultConfig})
  /\ buf \in {newBuffer(size) : size \in 1..MaxCapacity}
NextBuf ==
  \/ \E value \in BufferValues : Push(value)
  \/ Clear
  \/ GetMedian
  \/ Restore
SpecBuf == InitBuf /\ [][NextBuf]_vars

\* the AnomalyDetector called directly for one id (samples recorded and asked
\* about, the history cleared, a snapshot restored), with detection enabled
\* (defaults; multiplier 3 and sampleSize 5; multiplier 2 and sampleSize 6)
\* and disabled
InitDet ==
  InitWith({DefaultConfig, ShortConfig, WideConfig, DisabledConfig, SmallConfig})
NextDet ==
  \/ \E id \in HttpIds, rt \in ResponseTimes : RecordResponseTime(id, rt)
  \/ \E id \in HttpIds, rt \in CheckedTimes : CheckAnomaly(id, rt)
  \/ \E id \in HttpIds : ClearHistory(id)
  \/ \E data \in Snapshots : RestoreHistory(data)
SpecDet == InitDet /\ [][NextDet]_vars

\* the StateManager API with the file at statePath, at one time of the clock:
\* save() at any time with any outcome, the file damaged from outside, and a
\* StateManager constructed on the path, which loads what the file holds then
InitPersist == InitWith({ShortConfig})
SavedDate == 5 * 24 * 3600 * 1000
NextPersist ==
  \/ \E id \in ApiIds : ApiCap(id) /\ RecordFailure(id, "timeout")
  \/ \E id \in ApiIds : RecordRecovery(id)
  \/ \E id \in ApiIds, s \in HealthStates :
       stateChanges < MaxSavedStateChanges /\ RecordStateChange(id, s)
  \/ \E id \in ApiIds : Acknowledge(id)
  \/ \E id \in ApiIds : Unacknowledge(id)
  \/ \E d \in Domains : UpdateSSLExpiry(d, SavedDate)
  \/ \E id \in ApiIds : ClearFlappingHistory(id)
  \/ \E outcome \in SaveOutcomes : Save(outcome)
  \/ Construct
  \/ \E damage \in Collections \cup {"unreadable", "invalid"} : DamageFile(damage)
SpecPersist == InitPersist /\ [][NextPersist]_vars

\* the Monitor started and stopped, its cron jobs firing and its check runs
\* settling
InitStart == InitWith({DefaultConfig})
NextStart ==
  \/ Start
  \/ \E c \in Categories : CronFires(c)
  \/ \E run \in runs : RunSettles(run)
  \/ Stop
SpecStart == InitStart /\ [][NextStart]_vars

\* resource runs, MaxResourceRuns of them, overlapping or not: the three
\* results of a run handled one after the other, their alerts awaited from
\* the dispatcher. ResourceChecker.checkAll() runs its commands synchronously
\* (safeExec) and a handling that awaits nothing returns in the turn of the
\* event loop it was called in, so a run goes on to its next result in that
\* turn: nothing else happens in between
InitRes == InitWith({DefaultConfig})
Continuing ==
  {h \in Handlers : resourceRun[h] # <<>> /\ handlers[h].pc = "idle"}
NextRes ==
  \/ \E h \in Continuing : ResourceRunContinues(h)
  \/ /\ Continuing = {}
     /\ \/ \E results \in ResourceResults : CheckResources(results)
        \/ TimerFires
        \/ \E ok \in BOOLEAN : TransportReturns(ok)
        \/ SendTick
SpecRes == InitRes /\ [][NextRes]_vars

\* ... with an event loop that runs the continuations, timers that fire and a
\* clock that advances; the transport call of an alert may never return
FairRes ==
  /\ \A h \in Handlers : WF_vars(ResourceRunContinues(h))
  /\ WF_vars(TimerFires)
  /\ WF_vars(SendTick)
SpecResLive == SpecRes /\ FairRes

\* ... and with a transport whose calls all return
SpecResSent == SpecResLive /\ WF_vars(\E ok \in BOOLEAN : TransportReturns(ok))

\* the state-change log of one id written and read by direct calls, more often
\* than it has room for
\* a call stateManager.recordStateChange(id, newState), up to MaxLogCalls of them
LogStateChange(id, newState) ==
  /\ stateChanges < MaxLogCalls
  /\ stateChanges' = stateChanges + 1
  /\ flapping' = recordStateChange(flapping, id, newState, now)
  /\ lastOp' = Op("recordStateChange", id, newState,
                  IF isFlapping(flapping', config, id, now) THEN "true" ELSE "false")
  /\ emitted' = <<>>
  /\ UNCHANGED <<now, config, failures, acknowledged, responseTimes, ghostVars,
                 ticks, sslExpiry, dispVars, compVars>>

\* a call stateManager.isFlapping(id)
IsFlapping(id) ==
  /\ lastOp' = Op("isFlapping", id, "",
                  IF isFlapping(flapping, config, id, now) THEN "true" ELSE "false")
  /\ emitted' = <<>>
  /\ UNCHANGED <<now, config, smVars, responseTimes, ghostVars, countVars,
                 sslExpiry, dispVars, compVars>>

\* a call stateManager.getFlappingInfo(id)
GetFlappingInfo(id) ==
  /\ lastOp' = Op("getFlappingInfo", id, "",
                  ToString(getFlappingInfo(flapping, config, id, now).transitionCount))
  /\ emitted' = <<>>
  /\ UNCHANGED <<now, config, smVars, responseTimes, ghostVars, countVars,
                 sslExpiry, dispVars, compVars>>

InitLog == InitWith({DefaultConfig, ShortConfig})
NextLog ==
  \/ \E id \in ApiIds, s \in HealthStates : LogStateChange(id, s)
  \/ \E id \in ApiIds : IsFlapping(id)
  \/ \E id \in ApiIds : GetFlappingInfo(id)
SpecLog == InitLog /\ [][NextLog]_vars

\* a configuration that re-alerts every 5 minutes and looks for flapping over
\* 15 minutes (alerts.cooldownMinutes: 5, alerts.flappingWindowMinutes: 15)
RealertConfig ==
  [DefaultConfig EXCEPT !.cooldownMinutes = 5, !.flappingWindowMinutes = 15]

\* the Scheduler and the operator's /restart under that configuration
InitRealert == InitWith({RealertConfig})
NextRealert ==
  \/ SetCheckers
  \/ \E id \in OpsIds, r \in Results : Started /\ HandleCheckResult(id, r)
  \/ \E id \in OpsIds, from \in BOOLEAN, success \in BOOLEAN :
       RestartCommand(id, from, success)
  \/ \E kind \in {"inTry", "last"}, ok \in BOOLEAN : DirectReturns(kind, ok)
  \/ Delivered
  \/ TimerFires
  \/ ApiTick
SpecRealert == InitRealert /\ [][NextRealert]_vars

\* the intervals (ms) a category is configured with: the three of the test,
\* the defaults (1 min, 5 min, 24 h) and 45 s, 90 s, 7 min, 5 h
Intervals ==
  {30000, 120000, 7200000, 60000, 300000, 86400000,
   45000, 90000, 420000, 18000000}

\* the category whose job SpecCron follows against the wall clock
TimedCategory == "services"

\* monitor.start() with config.intervals.services = ms, up to
\* `await this.runInitialChecks()`: isRunning is set, the four cron jobs are
\* scheduled (that of the services with cron.schedule(this.cronFromMs(ms), ...))
\* and the warm-up runs are launched
Schedule(ms) ==
  /\ ~monitor.isRunning
  /\ monitor' = [isRunning |-> TRUE, jobs |-> Categories]
  /\ runs' = runs \cup {Run(c, "start") : c \in initialChecks}
  /\ cycle' = launch(cycle, config, "services", "start")
  /\ timer' = [interval |-> ms, expr |-> cronFromMs(ms), lastFired |-> -1, gap |-> 0]
  /\ lastOp' = Op("schedule", NoId, ToString(ms), "")
  /\ emitted' = <<>>
  /\ UNCHANGED <<now, config, smVars, responseTimes, ghostVars, countVars,
                 sslExpiry, dispVars, buf, pushes, samples, stateFile,
                 resourceRun, resourceCalls, process>>

\* the wall clock reaches the next instant the job of the services may fire
\* at; when its expression matches, the job fires and its callback calls
\* checkServices(): a run of the services is in progress from then on
CronClock ==
  /\ TimedCategory \in monitor.jobs
  /\ ticks < MaxCronTicks
  /\ ticks' = ticks + 1
  /\ now' = now + cronStepMs(timer.expr)
  /\ IF firesAt(timer.expr, now')
     THEN /\ FreeTimers(TimedCategory) # {}
          /\ timer' = [timer EXCEPT !.lastFired = now',
                                    !.gap = IF timer.lastFired = -1 THEN 0
                                            ELSE now' - timer.lastFired]
          /\ runs' = runs \cup {Run(TimedCategory, NextTimer(TimedCategory))}
          /\ cycle' = launch(cycle, config, TimedCategory,
                             NextTimer(TimedCategory))
          /\ lastOp' = Op("cronFires", NoId, TimedCategory, "")
     ELSE /\ timer' = timer
          /\ runs' = runs
          /\ cycle' = cycle
          /\ lastOp' = Op("tick", NoId, "", "")
  /\ emitted' = <<>>
  /\ UNCHANGED <<config, smVars, responseTimes, ghostVars, stateChanges,
                 sslExpiry, dispVars, buf, pushes, samples, stateFile, monitor,
                 resourceRun, resourceCalls, process>>

\* the Monitor started when the wall clock is at a full day: the job of the
\* services fires as its cron expression says and the jobs of the other
\* categories fire at any moment; with no service, endpoint or site
\* configured, the runs settle in the turn of the event loop that launched
\* them, but for the resource runs, which settle at any moment
InitCron == InitWith({DefaultConfig})
NextCron ==
  \/ \E run \in Settled : RunSettles(run)
  \/ /\ Settled = {}
     /\ \/ \E ms \in Intervals : Schedule(ms)
        \/ CronClock
        \/ \E c \in Categories \ {TimedCategory} : CronFires(c)
        \/ \E run \in runs : RunSettles(run)
SpecCron == InitCron /\ [][NextCron]_vars

\* the StateManager API called directly on two ids (failures and recoveries
\* of both, state changes and acknowledgments of one), with a cooldown of five
\* minutes, so that a clock step lets a failure be re-alerted
InitPair == InitWith({RealertConfig})
NextPair ==
  \/ \E id \in SMIds : RecordFailure(id, "timeout")
  \/ \E id \in SMIds : RecordRecovery(id)
  \/ \E id \in ApiIds : RecordStateChange(id, "unhealthy")
  \/ \E id \in ApiIds : Acknowledge(id)
  \/ \E id \in ApiIds : Unacknowledge(id)
  \/ ApiTick
SpecPair == InitPair /\ [][NextPair]_vars

\* clock steps SpecShutdown takes while the drain loop is not sleeping
MaxIdleTicks == 1

\* shutdown() calls a behaviour may make (SIGINT, SIGTERM and an uncaught
\* exception each call it, whether or not a shutdown is under way)
MaxSignals == 2

\* Watchdog.shutdown up to `await this.notifier.sendShutdownNotification()`:
\* monitor.shutdown() stops the cron jobs and calls stateManager.shutdown(),
\* which stops the auto-save timer and saves (writeFileSync doing `first`);
\* stateManager.shutdown() is called once more (writeFileSync doing `second`);
\* the shutdown notice is queued. The process exits when the notice of the
\* first call has settled, which it does before those of later calls
Shutdown(first, second) ==
  /\ process.phase # "exited"
  /\ process.signals < MaxSignals
  /\ monitor' = [isRunning |-> FALSE, jobs |-> {}]
  /\ stateFile' = save(save(stateFile, failures, flapping, acknowledged,
                            sslExpiry, first),
                       failures, flapping, acknowledged, sslExpiry, second)
  /\ LET m == Enqueued + 1
         r == sendMessage(messageQueue, isProcessingQueue, drain, lastSentTime,
                          m, now)
         written == second = "written" \/ (first = "written" /\ second = "unchanged")
     IN  /\ messageQueue' = r.queue
         /\ isProcessingQueue' = r.processing
         /\ drain' = r.drain
         /\ handed' = handedAfter(handed, r.call, now)
         /\ promises' = MapSet(promises, m, "pending")
         /\ process' = [phase |-> "shuttingDown",
                        notice |-> IF process.phase = "running" THEN m
                                   ELSE process.notice,
                        signals |-> process.signals + 1,
                        saved |-> written,
                        startup |-> process.startup]
         /\ lastOp' = Op("shutdown", NoId, "",
                         IF written THEN "written" ELSE "failed")
  /\ emitted' = <<>>
  /\ UNCHANGED <<now, config, smVars, responseTimes, ghostVars, countVars,
                 sslExpiry, lastSentTime, handlers, commands, buf, pushes,
                 samples, runs, resourceRun, resourceCalls, timer, cycle>>

\* the promise of the shutdown notice settled: stopPolling() and
\* process.exit(0)
Exit ==
  /\ process.phase = "shuttingDown"
  /\ promises[process.notice] # "pending"
  /\ process' = [process EXCEPT !.phase = "exited"]
  /\ lastOp' = Op("exit", NoId, "", "")
  /\ emitted' = <<>>
  /\ UNCHANGED <<now, config, smVars, responseTimes, ghostVars, countVars,
                 sslExpiry, dispVars, buf, pushes, samples, stateFile, monitor,
                 runs, resourceRun, resourceCalls, timer, cycle>>

\* the ids whose Checker waits for the network (SSLChecker.check awaits an
\* https request): the check of a run in progress returns in a later turn of
\* the event loop, which may be after the cron jobs were stopped; the Checkers
\* of the services run their command synchronously, so that the results of a
\* services run are all handled in the turn that launched it
LateIds == {SslSite}

\* the results of certificate checks handled concurrently while the process
\* runs and while it shuts down; the handlings in progress, the drain loop and
\* the clock go on until the process exits
InitShutdown == InitWith({DefaultConfig})
ShutdownTick == (ticks < MaxIdleTicks \/ drain.pc = "sleeping") /\ SendTick
NextShutdown ==
  \/ /\ process.phase # "exited"
     /\ \E id \in LateIds, r \in Results : StartHandling(FreeSlot, id, r)
  \/ process.phase # "exited" /\ TimerFires
  \/ process.phase # "exited" /\ \E ok \in BOOLEAN : TransportReturns(ok)
  \/ process.phase # "exited" /\ ShutdownTick
  \/ \E first \in SaveOutcomes, second \in SaveOutcomes : Shutdown(first, second)
  \/ Exit
SpecShutdown == InitShutdown /\ [][NextShutdown]_vars

\* ------------------------------------------------------------------ claims
\* the cooldown a claim speaks of: cooldownMinutes, 30 when not configured
ClaimCooldownMs ==
  (IF config.cooldownMinutes = 0 THEN 30 ELSE config.cooldownMinutes) * 60000
\* the flapping window and threshold a claim speaks of
ClaimWindowMs ==
  (IF config.flappingWindowMinutes = 0 THEN 10 ELSE config.flappingWindowMinutes)
    * 60000
ClaimThreshold ==
  IF config.flappingThreshold = 0 THEN 3 ELSE config.flappingThreshold

\* C1: recordFailure(id, error) on an id without a FailureRecord creates one
\* with firstSeen = lastAlertSent = now and consecutiveFailures = 1 and returns
\* first_failure; on an id with a record it returns ongoing_failure exactly
\* when now - lastAlertSent >= cooldownMinutes (default 30) and then sets
\* lastAlertSent to now; otherwise it returns suppressed and leaves
\* lastAlertSent alone.
C1_RecordFailureContract ==
  [][\A id \in SMIds :
       (lastOp'.kind = "recordFailure" /\ lastOp'.id = id) =>
         IF ~MapHas(failures, id)
         THEN /\ lastOp'.ret = "first_failure"
              /\ MapHas(failures', id)
              /\ failures'[id].firstSeen = now
              /\ failures'[id].lastAlertSent = now
              /\ failures'[id].consecutiveFailures = 1
         ELSE IF now - failures[id].lastAlertSent >= ClaimCooldownMs
              THEN /\ lastOp'.ret = "ongoing_failure"
                   /\ failures'[id].lastAlertSent = now
              ELSE /\ lastOp'.ret = "suppressed"
                   /\ failures'[id].lastAlertSent = failures[id].lastAlertSent
    ]_vars

\* a re-alert under the default cooldown, exactly 30 minutes after the record
\* was created, and a suppressed call before it
C1_Witness ==
  /\ config = DefaultConfig
  /\ lastOp.kind = "recordFailure"
  /\ lastOp.ret = "ongoing_failure"
  /\ failures[lastOp.id].consecutiveFailures = 3
  /\ failures[lastOp.id].lastAlertSent - failures[lastOp.id].firstSeen
       = 30 * 60000

\* C2: a FailureRecord exists for an id exactly when the most recent of the
\* recordFailure / recordRecovery calls made for that id was recordFailure.
C2_RecordIffLastCallFailure ==
  \A id \in SMIds : MapHas(failures, id) <=> lastCall[id] = "recordFailure"

\* one id recovered after a failure while the other still has its record
C2_Witness ==
  /\ lastCall[DockerWeb] = "recordRecovery"
  /\ lastOp.kind = "recordRecovery"
  /\ lastOp.ret # NullRecovery
  /\ ~MapHas(failures, DockerWeb)
  /\ MapHas(failures, SslSite)

\* the step processed an unhealthy / healthy check result of id in
\* handleCheckResult (reached from checkService, checkSSLCert, checkResources
\* or checkEndpoint)
Handled(id, health) ==
  /\ lastOp'.kind \in {"handleCheckResult", "checkEndpoint"}
  /\ lastOp'.id = id
  /\ lastOp'.arg = health
HandledNow(id, health) ==
  /\ lastOp.kind \in {"handleCheckResult", "checkEndpoint"}
  /\ lastOp.id = id
  /\ lastOp.arg = health

\* the failure alert of id's category: sendFailureAlert, or sendSSLWarning /
\* sendResourceWarning for an ssl: / resource: id
DownAlert(id, action) ==
  IF id[1] = "ssl" THEN Alert("ssl", id, "")
  ELSE IF id[1] = "resource" THEN Alert("resource", id, "")
  ELSE Alert("failure", id, action)

\* C3: when check results of one non-acknowledged service that alternate
\* unhealthy, healthy, unhealthy are processed one after another (the handling
\* of each has returned before the next arrives) inside the flapping window
\* (three health flips, default threshold 3), the failing result that
\* completes the third flip emits a flapping alert instead of a failure alert.
C3_ThirdFlipEmitsFlapping ==
  [][\A id \in MonIds :
       ( /\ Handled(id, "unhealthy")
         /\ NoneInProgress
         /\ ClaimThreshold = 3
         /\ lastResult[id] = "healthy"
         /\ Len(edges'[id]) >= 3 )
       => emitted' = <<Alert("flapping", id, "")>>
    ]_vars

\* C4: isFlapping(id) is true exactly when the number of recorded Transitions
\* of id younger than the window is at least flappingThreshold.
C4_FlappingIffThresholdInWindow ==
  \A id \in SMIds :
    isFlapping(flapping, config, id, now)
      <=> Cardinality({i \in 1..Len(transitionsOf(flapping, id)) :
                         now - transitionsOf(flapping, id)[i].time < ClaimWindowMs})
            >= ClaimThreshold

\* C5: for an unhealthy result handled by handleFailure: if the service is
\* flapping after recordFailure, exactly one flapping alert and no failure
\* alert is emitted whatever the action; if not, one down alert is emitted
\* exactly when the action is first_failure or ongoing_failure and nothing
\* when it is suppressed.
C5_FlappingReplacesFailureAlert ==
  \A id \in MonIds :
    ( /\ HandledNow(id, "unhealthy")
      /\ lastOp.ret \in {"first_failure", "ongoing_failure", "suppressed"} )
    => IF isFlapping(flapping, config, id, now)
       THEN emitted = <<Alert("flapping", id, "")>>
       ELSE IF lastOp.ret \in {"first_failure", "ongoing_failure"}
            THEN emitted = <<DownAlert(id, lastOp.ret)>>
            ELSE emitted = <<>>

\* a flapping alert that took the place of a first_failure alert: the failing
\* result arrived while the recovery before it awaited its alert
C5_Witness ==
  /\ HandledNow(DockerWeb, "unhealthy")
  /\ lastOp.ret = "first_failure"
  /\ isFlapping(flapping, config, DockerWeb, now)
  /\ emitted = <<Alert("flapping", DockerWeb, "")>>

\* C6: for a non-acknowledged service that fails continuously, is not
\* flapping when the result is handled and had no flapping alert in this
\* outage, the first failing result emits a down
\* alert, a failing result less than cooldownMinutes after the last alert
\* emits nothing, and the first failing result at least cooldownMinutes after
\* the last alert emits an ongoing-down alert; two consecutive failure alerts
\* of one outage are never less than cooldownMinutes apart.
C6_CooldownBetweenFailureAlerts ==
  [][\A id \in MonIds :
       ( /\ Handled(id, "unhealthy")
         /\ ~isFlapping(flapping', config, id, now)
         /\ lastAlertAt[id] # -2 ) =>
         /\ lastResult[id] # "unhealthy"
              => emitted' = <<DownAlert(id, "first_failure")>>
         /\ (lastResult[id] = "unhealthy"
               /\ now - lastAlertAt[id] < ClaimCooldownMs)
              => emitted' = <<>>
         /\ (lastResult[id] = "unhealthy"
               /\ now - lastAlertAt[id] >= ClaimCooldownMs)
              => emitted' = <<DownAlert(id, "ongoing_failure")>>
         /\ (HasAlert(emitted', {"failure", "ssl", "resource"})
               /\ lastAlertAt[id] # -1)
              => now - lastAlertAt[id] >= ClaimCooldownMs
    ]_vars

\* the third failing result of an outage under the default cooldown: an
\* ongoing-down alert 30 minutes or more after the first alert
C6_Witness ==
  /\ config = DefaultConfig
  /\ HandledNow(DockerWeb, "unhealthy")
  /\ emitted = <<Alert("failure", DockerWeb, "ongoing_failure")>>
  /\ failures[DockerWeb].consecutiveFailures = 3
  /\ now - failures[DockerWeb].firstSeen >= 30 * 60000

\* C7: whenever a check result processed while the service is not
\* acknowledged is unhealthy and the check result of that service before it
\* was healthy (or there was none), it emits a failure alert or a flapping
\* alert.
C7_NewFailureAlwaysAlerts ==
  [][\A id \in AckIds :
       ( /\ Handled(id, "unhealthy")
         /\ id \notin acknowledged
         /\ lastResult[id] \in {"none", "healthy"} )
       => HasAlert(emitted', {"failure", "ssl", "resource", "flapping"})
    ]_vars

\* C8: while an id is acknowledged, handleCheckResult emits no alert for any
\* check result of that id.
C8_AcknowledgedEmitsNothing ==
  \A id \in AckIds :
    ( /\ lastOp.kind = "handleCheckResult"
      /\ lastOp.id = id
      /\ id \in acknowledged )
    => emitted = <<>>

\* the first failing result of an acknowledged service, and the healthy
\* result of an acknowledged service that has a FailureRecord
C8_Witness ==
  /\ lastOp.kind = "handleCheckResult"
  /\ lastOp.id = DockerWeb
  /\ DockerWeb \in acknowledged
  /\ lastOp.arg = "healthy"
  /\ MapHas(failures, DockerWeb)
  /\ emitted = <<>>

\* C9: while an id is acknowledged no notification of any kind is dispatched
\* for it, the anomaly alert of checkEndpoint included.
C9_AcknowledgedNoAnomalyAlert ==
  \A id \in HttpIds :
    ( /\ lastOp.kind = "checkEndpoint"
      /\ lastOp.id = id
      /\ id \in acknowledged )
    => emitted = <<>>

\* C10: while an id is acknowledged its check results are still recorded: an
\* unhealthy result creates or updates the FailureRecord, a healthy result
\* after a failure deletes it, and every health flip appends a Transition.
C10_AcknowledgedStillRecorded ==
  [][\A id \in AckIds :
       ( /\ lastOp'.kind = "handleCheckResult"
         /\ lastOp'.id = id
         /\ id \in acknowledged )
       => /\ lastOp'.arg = "unhealthy"
               => /\ MapHas(failures', id)
                  /\ MapHas(failures, id)
                       => failures'[id].consecutiveFailures
                            = failures[id].consecutiveFailures + 1
          /\ (lastOp'.arg = "healthy" /\ MapHas(failures, id))
               => ~MapHas(failures', id)
          /\ (lastOp'.arg = "unhealthy" /\ lastResult[id] # "unhealthy")
               => /\ MapHas(flapping', id)
                  /\ Len(flapping'[id]) = Len(transitionsOf(flapping, id)) + 1
    ]_vars

\* the handling of a healthy result of id that awaits its recovery alert
AwaitsRecoveryAlert(hs, id) ==
  \E h \in Handlers :
    /\ hs[h].pc = "awaiting"
    /\ hs[h].id = id
    /\ hs[h].rest = "clearFlappingHistory"

\* ... returns in this step
RecoveryCompletes(id) ==
  \E h \in Handlers :
    /\ handlers[h].pc = "awaiting"
    /\ handlers[h].id = id
    /\ handlers[h].rest = "clearFlappingHistory"
    /\ handlers'[h].pc = "idle"

\* C11: when handleCheckResult processes a healthy result for a
\* non-acknowledged service that has a FailureRecord, the record is deleted
\* and a recovery alert is emitted exactly when recoveryNotify is true, and
\* once the handling completes (at once without the alert, else when the
\* awaited alert has returned) the flap history of the id is empty and, no
\* failure of the id having been recorded meanwhile, there is no
\* FailureRecord; a healthy result for a service without a FailureRecord
\* changes no state and emits nothing.
C11_RecoveryContract ==
  [][\A id \in AckIds :
       /\ ( /\ lastOp'.kind = "handleCheckResult"
            /\ lastOp'.id = id
            /\ lastOp'.arg = "healthy"
            /\ id \notin acknowledged )
          => IF MapHas(failures, id)
             THEN /\ ~MapHas(failures', id)
                  /\ emitted' = IF config.recoveryNotify
                                THEN <<Alert("recovery", id, "")>> ELSE <<>>
                  /\ IF config.recoveryNotify
                     THEN AwaitsRecoveryAlert(handlers', id)
                     ELSE /\ transitionsOf(flapping', id) = <<>>
                          /\ handlers' = handlers
             ELSE /\ failures' = failures
                  /\ flapping' = flapping
                  /\ acknowledged' = acknowledged
                  /\ responseTimes' = responseTimes
                  /\ sslExpiry' = sslExpiry
                  /\ handlers' = handlers
                  /\ emitted' = <<>>
       /\ RecoveryCompletes(id)
          => /\ transitionsOf(flapping', id) = <<>>
             /\ lastCall[id] = "recordRecovery" => ~MapHas(failures', id)
    ]_vars

\* a recovery with notifications on, ten minutes or more into the run, has
\* completed: the recovery alert returned, the record and the flap history
\* are gone
C11_Witness ==
  /\ lastOp.kind = "transport"
  /\ lastOp.id = DockerWeb
  /\ lastOp.ret = "clearFlappingHistory"
  /\ config.recoveryNotify
  /\ outage[DockerWeb] = NoOutage
  /\ lastResult[DockerWeb] = "healthy"
  /\ ~MapHas(failures, DockerWeb)
  /\ ~MapHas(flapping, DockerWeb)
  /\ NoneInProgress
  /\ now >= 2 * TickMs

\* C12: recordRecovery(id) on an id with a FailureRecord deletes the record
\* and returns downtimeDuration = now - firstSeen, firstSeen being the time of
\* the recordFailure call that created the record, and failuresSeen = the
\* number of recordFailure calls made for id since the record was created.
C12_RecoveryInfo ==
  [][\A id \in SMIds :
       ( /\ lastOp'.kind = "recordRecovery"
         /\ lastOp'.id = id
         /\ MapHas(failures, id) )
       => /\ ~MapHas(failures', id)
          /\ lastOp'.ret.downtimeDuration = now - outage[id].since
          /\ lastOp'.ret.firstSeen = outage[id].since
          /\ lastOp'.ret.failuresSeen = outage[id].calls
    ]_vars

\* failures at 0, 5 and 30 minutes (the last one a re-alert) and the recovery
\* at 35 minutes: 35 minutes of downtime and 3 failures seen
C12_Witness ==
  /\ config = DefaultConfig
  /\ lastOp.kind = "recordRecovery"
  /\ lastOp.ret # NullRecovery
  /\ lastOp.ret.failuresSeen = 3
  /\ lastOp.ret.firstSeen = 0
  /\ lastOp.ret.downtimeDuration = 35 * 60000
  /\ now = 35 * 60000

\* C13: recordRecovery(id) on an id with no FailureRecord returns null and
\* leaves failures, transition logs, the acknowledged set and the TLS-expiry
\* cache unchanged.
C13_RecoveryWithoutRecord ==
  [][\A id \in ApiIds :
       ( /\ lastOp'.kind = "recordRecovery"
         /\ lastOp'.id = id
         /\ ~MapHas(failures, id) )
       => /\ lastOp'.ret = NullRecovery
          /\ failures' = failures
          /\ flapping' = flapping
          /\ acknowledged' = acknowledged
          /\ sslExpiry' = sslExpiry
          /\ stateFile' = stateFile
    ]_vars

\* null returned while a transition log, an acknowledgement and a cached
\* expiry date exist
C13_Witness ==
  /\ lastOp.kind = "recordRecovery"
  /\ lastOp.ret = NullRecovery
  /\ failures = EmptyMap
  /\ MapHas(flapping, DockerWeb)
  /\ Len(flapping[DockerWeb]) >= 2
  /\ DockerWeb \in acknowledged
  /\ sslExpiry # EmptyMap

\* checkEndpoint goes on for id in this step: the anomaly alert it awaited has
\* returned and the result is passed to handleCheckResult
EndpointGoesOn(id) ==
  /\ lastOp'.kind = "transport"
  /\ lastOp'.ret = "handleCheckResult"
  /\ lastOp'.id = id

\* C14: each check result the Scheduler processes produces at most one
\* outbound alert, counting failure, flapping, recovery and anomaly alerts
\* together: no step of checkEndpoint emits two alerts, and when it goes on
\* after the anomaly alert of a result it emits no further alert.
C14_AtMostOneAlertPerResult ==
  [][\A id \in HttpIds :
       /\ (lastOp'.kind = "checkEndpoint" /\ lastOp'.id = id)
            => Len(emitted') <= 1
       /\ EndpointGoesOn(id) => emitted' = <<>>]_vars

\* the messages handed to the transport so far
HandedMessages == [i \in 1..Len(handed) |-> handed[i].message]

\* C15: the dispatcher hands messages to the transport in the order in which
\* sendMessage enqueued them (messages are numbered in enqueue order),
\* whatever the interleaving of enqueues with sleeps and in-flight sends.
C15_FifoHandover ==
  \A i, j \in 1..Len(handed) :
    i < j => handed[i].message < handed[j].message

\* message 3 was enqueued behind message 2 while message 1 was in flight or
\* the loop slept, and 2 is in flight now
C15_Witness ==
  /\ HandedMessages = <<1, 2>>
  /\ drain = DrainSending(2)
  /\ messageQueue = <<3>>
  /\ handed[2].at > handed[1].at

\* C16: handing an alert to the dispatcher does not wait for delivery: no
\* handling of a check result is suspended on a message whose transport send
\* has not returned.
C16_HandlingDoesNotAwaitDelivery ==
  \A h \in Handlers :
    handlers[h].pc = "awaiting" => promises[handlers[h].message] # "pending"

\* C17: two consecutive transport send attempts are at least minInterval
\* (1000/30 ms) apart, whether the earlier attempt succeeded or failed.
C17_MinIntervalBetweenAttempts ==
  \A i \in 1..(Len(handed) - 1) :
    (handed[i + 1].at - handed[i].at) * 30 >= 1000

\* the number of times message m was handed to the transport
Attempts(hd, m) == Cardinality({i \in 1..Len(hd) : hd[i].message = m})

\* C18: when a transport send fails the message is dropped: it is not in the
\* queue, it is never handed to the transport again (every message is
\* attempted at most once), and the drain loop goes on with the messages
\* queued behind it.
C18_FailedMessageDropped ==
  [][/\ \A m \in DOMAIN promises' : Attempts(handed', m) <= 1
     /\ \A m \in DOMAIN promises :
          promises[m] = "rejected" =>
            /\ promises'[m] = "rejected"
            /\ \A i \in 1..Len(messageQueue') : messageQueue'[i] # m
     /\ (lastOp'.kind = "transport" /\ lastOp'.arg = "failed") =>
          /\ promises'[drain.message] = "rejected"
          /\ \A i \in 1..Len(messageQueue') : messageQueue'[i] # drain.message
          /\ messageQueue # <<>> =>
               /\ isProcessingQueue'
               /\ drain'.pc \in {"sleeping", "sending"}
               /\ drain'.pc = "sending" => drain'.message = Head(messageQueue)
    ]_vars

\* message 1 failed and message 2, queued behind it, was sent
C18_Witness ==
  /\ Len(handed) >= 2
  /\ promises[1] = "rejected"
  /\ promises[2] = "resolved"
  /\ HandedMessages[2] = 2
  /\ Attempts(handed, 1) = 1

\* C19: provided every transport call returns, every message enqueued with
\* sendMessage is eventually handed to the transport, and afterwards the
\* queue is empty and isProcessingQueue is false; no message stays in the
\* queue with no drain loop running.
C19_EveryMessageHandedOver ==
  /\ \A m \in 1..MaxMessages :
       (m \in DOMAIN promises) ~> (Attempts(handed, m) = 1)
  /\ (Enqueued > 0) ~> (messageQueue = <<>> /\ ~isProcessingQueue)
  /\ [](messageQueue # <<>> => isProcessingQueue /\ drain.pc # "idle")

\* three messages went out, one of them after a failed send and one after a
\* sleep, and the dispatcher came to rest
C19_Witness ==
  /\ Len(handed) = 3
  /\ promises[2] = "rejected"
  /\ promises[3] = "resolved"
  /\ handed[3].at > handed[1].at
  /\ messageQueue = <<>>
  /\ ~isProcessingQueue
  /\ drain = DrainIdle

\* C20: when a Checker throws for a service in a run of checkServices, the
\* Scheduler catches it at that service: no FailureRecord is created or
\* changed, no Transition is appended, no alert is emitted, the promise of
\* that checkService call is fulfilled, the other services of the run are
\* where they were and the run goes on; and the cycle does not fail: when a
\* run settles every configured service was checked and none of the
\* checkService promises was rejected.
C20_CheckerErrorContained ==
  [][/\ \A by \in Launchers : \A id \in DOMAIN cycle[by] :
          (/\ lastOp'.kind = "checkerThrows"
           /\ lastOp'.id = id
           /\ lastOp'.arg = by)
          => /\ failures' = failures
             /\ flapping' = flapping
             /\ emitted' = <<>>
             /\ cycle'[by][id] = "fulfilled"
             /\ \A other \in DOMAIN cycle[by] \ {id} :
                  cycle'[by][other] = cycle[by][other]
             /\ Run("services", by) \in runs'
     /\ \A by \in Launchers :
          (/\ lastOp'.kind = "settled"
           /\ lastOp'.arg = "services"
           /\ lastOp'.ret = by)
          => /\ DOMAIN cycle[by] = config.services
             /\ rejectedCount(cycle, by) = 0
    ]_vars

\* the Checker of the container threw during an outage of two failing
\* results, in a run of the cron job whose other service is still to be
\* checked
C20_Witness ==
  /\ lastOp.kind = "checkerThrows"
  /\ lastOp.id = DockerWeb
  /\ lastOp.arg = "timer"
  /\ MapHas(failures, DockerWeb)
  /\ failures[DockerWeb].consecutiveFailures = 2
  /\ MapHas(flapping, DockerWeb)
  /\ emitted = <<>>
  /\ cycle["timer"] = [id \in {DockerWeb, Pm2Worker} |->
                         IF id = DockerWeb THEN "fulfilled" ELSE "checking"]

\* the last n elements of seq (all of them when it has fewer)
LastOf(seq, n) ==
  IF Len(seq) <= n THEN seq ELSE SubSeq(seq, Len(seq) - n + 1, Len(seq))

\* the values a buffer of capacity buf.size holds after the pushes made
Held == LastOf(pushes, buf.size)

\* C26: after k pushes into a CircularBuffer of capacity N, length() is
\* min(k, N) and getAll() is the last min(k, N) pushed values, oldest first.
C26_LastPushesInOrder ==
  /\ length(buf) = (IF Len(pushes) < buf.size THEN Len(pushes) ELSE buf.size)
  /\ getAll(buf) = Held

\* a buffer of capacity 2 that wrapped around twice over
C26_Witness ==
  /\ buf.size = 2
  /\ pushes = <<100, 400, 250, 100>>
  /\ lastOp.kind = "push"
  /\ length(buf) = 2
  /\ getAll(buf) = <<250, 100>>

\* the k-th smallest of a non-empty array of numbers, by counting
KthSmallest(values, k) ==
  CHOOSE v \in Range(values) :
    /\ Cardinality({i \in DOMAIN values : values[i] < v}) < k
    /\ Cardinality({i \in DOMAIN values : values[i] <= v}) >= k

\* the reference median of an array, as the fraction num / den
RefMedian(values) ==
  LET n == Len(values)
  IN  IF n = 0 THEN [num |-> 0, den |-> 1]
      ELSE IF n % 2 = 1
           THEN [num |-> KthSmallest(values, (n + 1) \div 2), den |-> 1]
           ELSE [num |-> KthSmallest(values, n \div 2)
                           + KthSmallest(values, n \div 2 + 1),
                 den |-> 2]

\* C27: getMedian() is the reference median of the values held (middle element
\* of the sorted values for an odd count, average of the two middle ones for
\* an even count, 0 for an empty buffer), and computing it leaves the buffer's
\* contents and order as they were.
C27_MedianIsReference ==
  [][lastOp'.kind = "getMedian"
       => /\ lastOp'.ret = Shows(RefMedian(Held))
          /\ buf' = buf
          /\ getAll(buf') = Held
    ]_vars

\* the median of an even count of unsorted values after wrap-around
C27_Witness ==
  /\ lastOp.kind = "getMedian"
  /\ buf.size = 2
  /\ pushes = <<100, 400, 250>>
  /\ lastOp.ret = "650/2"

\* the arrays of at most n further values
Further(n) == UNION {[1..k -> BufferValues] : k \in 0..n}

\* what a buffer shows to its callers
Shown(b) ==
  [size |-> b.size, length |-> length(b), all |-> getAll(b),
   median |-> getMedian(b), average |-> getAverage(b), min |-> getMin(b),
   max |-> getMax(b)]

\* C28: fromJSON(b.toJSON()) has the capacity of b, the same getAll() and so
\* the same median, mean, min and max, and stays equal to b in all of these
\* under further pushes.
C28_RoundTripEquivalent ==
  [][lastOp'.kind = "fromJSON"
       => /\ Shown(buf') = Shown(buf)
          /\ \A more \in Further(buf.size) :
               toJSON(pushEach(buf', more)) = toJSON(pushEach(buf, more))
    ]_vars

\* a buffer that had wrapped around (its index was 1) was restored: the copy
\* holds the same values with its index at 0
C28_Witness ==
  /\ lastOp.kind = "fromJSON"
  /\ buf.size = 3
  /\ pushes = <<100, 400, 250, 100>>
  /\ buf.index = 0
  /\ getAll(buf) = <<400, 250, 100>>

\* C23 as stated: checkAnomaly(id, sample) returns isAnomaly = false with
\* reason 'insufficient samples' whenever fewer than 5 samples have been
\* recorded for id with recordResponseTime, and checkAnomaly changes nothing
\* in the detector.
C23_InsufficientSamples ==
  [][\A id \in HttpIds :
       (lastOp'.kind = "checkAnomaly" /\ lastOp'.id = id)
       => /\ Len(samples[id]) < 5 => lastOp'.ret = "insufficient samples"
          /\ responseTimes' = responseTimes
    ]_vars

\* C23, amended: with detection enabled, checkAnomaly(id, sample) returns
\* isAnomaly = false with reason 'insufficient samples' whenever fewer than 5
\* samples have been recorded for id (the samples of a restored snapshot
\* counting as recorded, those before clearHistory not); with detection
\* disabled the reason is 'detection disabled'; in both cases checkAnomaly
\* changes nothing in the detector.
C23_InsufficientSamplesWhenEnabled ==
  [][\A id \in HttpIds :
       (lastOp'.kind = "checkAnomaly" /\ lastOp'.id = id)
       => /\ (config.anomalyEnabled /\ Len(samples[id]) < 5)
               => lastOp'.ret = "insufficient samples"
          /\ ~config.anomalyEnabled => lastOp'.ret = "detection disabled"
          /\ responseTimes' = responseTimes
    ]_vars

\* four samples of 100 ms recorded, then 1300 ms asked about: not an anomaly,
\* and still four samples held
C23_Witness ==
  /\ config.anomalyEnabled
  /\ lastOp.kind = "checkAnomaly"
  /\ lastOp.arg = "1300"
  /\ lastOp.ret = "insufficient samples"
  /\ samples[HttpApi] = <<100, 100, 100, 100>>
  /\ length(responseTimes[HttpApi]) = 4

\* the multiplier and the sample size a claim speaks of
ClaimMultiplier == IF config.multiplier = 0 THEN 3 ELSE config.multiplier
ClaimSampleSize == IF config.sampleSize = 0 THEN 20 ELSE config.sampleSize

\* C24 as stated: with detection enabled and at least 5 samples recorded for
\* id, checkAnomaly(id, sample) reports an anomaly exactly when sample >
\* median x multiplier, the median taken over the at most sampleSize most
\* recently recorded samples; with detection disabled recordResponseTime
\* stores nothing and checkAnomaly never reports an anomaly.
C24_AnomalyIffAboveThreshold ==
  [][\A id \in HttpIds :
       /\ (lastOp'.kind = "checkAnomaly" /\ lastOp'.id = id
             /\ config.anomalyEnabled /\ Len(samples[id]) >= 5)
          => LET median == RefMedian(LastOf(samples[id], ClaimSampleSize))
             IN  \A rt \in CheckedTimes :
                   lastOp'.arg = ToString(rt)
                   => (lastOp'.ret = "anomaly"
                         <=> rt * median.den > median.num * ClaimMultiplier)
       /\ (lastOp'.kind = "checkAnomaly" /\ ~config.anomalyEnabled)
          => lastOp'.ret # "anomaly"
       /\ (lastOp'.kind = "recordResponseTime" /\ ~config.anomalyEnabled)
          => responseTimes' = responseTimes
    ]_vars

\* C24, amended: with detection enabled and at least 5 samples recorded for
\* id, checkAnomaly(id, sample) reports an anomaly exactly when the buffer of
\* id has a capacity N of at least 5 and sample > median x multiplier, the
\* median taken over the at most N most recently recorded samples; N is
\* sampleSize for a buffer recordResponseTime created and the capacity in the
\* snapshot for a restored one; a buffer of capacity below 5 never holds 5
\* samples and the answer stays 'insufficient samples'; with detection
\* disabled recordResponseTime stores nothing and checkAnomaly never reports
\* an anomaly.
C24_AnomalyIffAboveBufferMedian ==
  [][\A id \in HttpIds :
       /\ (lastOp'.kind = "checkAnomaly" /\ lastOp'.id = id
             /\ config.anomalyEnabled /\ Len(samples[id]) >= 5)
          => LET N == responseTimes[id].size
                 median == RefMedian(LastOf(samples[id], N))
             IN  /\ \A rt \in CheckedTimes :
                       lastOp'.arg = ToString(rt)
                       => (lastOp'.ret = "anomaly"
                             <=> /\ N >= 5
                                 /\ rt * median.den > median.num * ClaimMultiplier)
                 /\ N < 5 => lastOp'.ret = "insufficient samples"
       /\ (lastOp'.kind = "recordResponseTime" /\ lastOp'.id = id
             /\ config.anomalyEnabled)
          => responseTimes'[id].size
               = IF MapHas(responseTimes, id) THEN responseTimes[id].size
                 ELSE ClaimSampleSize
       /\ (lastOp'.kind = "restoreHistory" /\ lastOp'.arg = "buffers"
             /\ MapHas(responseTimes', id))
          => ToString(responseTimes'[id].size) = lastOp'.ret
       /\ (lastOp'.kind = "checkAnomaly" /\ ~config.anomalyEnabled)
          => lastOp'.ret # "anomaly"
       /\ (lastOp'.kind = "recordResponseTime" /\ ~config.anomalyEnabled)
          => responseTimes' = responseTimes
    ]_vars

\* sampleSize 5 and six samples recorded: the first one (400 ms) is evicted,
\* the median of the last five is 100 ms and 400 ms is an anomaly
C24_Witness ==
  /\ config = ShortConfig
  /\ samples[HttpApi] = <<400, 400, 400, 100, 100, 100>>
  /\ lastOp.kind = "checkAnomaly"
  /\ lastOp.arg = "400"
  /\ lastOp.ret = "anomaly"

\* a detector of sampleSize 3 after six samples of 100 ms: its buffer holds
\* three of them, and 1300 ms is answered with 'insufficient samples'
C24_WitnessSmallBuffer ==
  /\ config = SmallConfig
  /\ samples[HttpApi] = <<100, 100, 100, 100, 100, 100>>
  /\ length(responseTimes[HttpApi]) = 3
  /\ lastOp.kind = "checkAnomaly"
  /\ lastOp.arg = "1300"
  /\ lastOp.ret = "insufficient samples"

\* checkEndpoint handled a healthy result of id with an anomaly alert
AnomalousResult(id) ==
  /\ lastOp'.kind = "checkEndpoint"
  /\ lastOp'.id = id
  /\ lastOp'.arg = "healthy"
  /\ HasAlert(emitted', {"anomaly"})

\* checkEndpoint handled an unhealthy result of id
UnhealthyResult(id) ==
  /\ lastOp'.kind = "checkEndpoint"
  /\ lastOp'.id = id
  /\ lastOp'.arg = "unhealthy"

\* no FailureRecord of id is created or changed in this step
NoRecordMade(id) ==
  MapHas(failures', id) => (MapHas(failures, id) /\ failures'[id] = failures[id])

\* C25 as stated: a healthy HTTP result whose response time is anomalous
\* produces an anomaly alert without creating a FailureRecord and without
\* appending a Transition for that service, neither with the alert nor when
\* checkEndpoint goes on after it; and an unhealthy HTTP result is never
\* recorded into the anomaly buffer.
C25_AnomalyWithoutTransition ==
  [][\A id \in HttpIds :
       /\ AnomalousResult(id)
          => /\ NoRecordMade(id)
             /\ transitionsOf(flapping', id) = transitionsOf(flapping, id)
             /\ emitted' = <<Alert("anomaly", id, "")>>
       /\ EndpointGoesOn(id)
          => /\ NoRecordMade(id)
             /\ transitionsOf(flapping', id) = transitionsOf(flapping, id)
       /\ UnhealthyResult(id) => responseTimes' = responseTimes
    ]_vars

\* C25, amended: a healthy HTTP result whose response time is anomalous
\* produces an anomaly alert and never creates or changes a FailureRecord.
\* With the alert, FailureRecords and Transition logs stay as they are. When
\* checkEndpoint goes on after the alert, a service that is acknowledged or
\* has no FailureRecord keeps its log and nothing more is emitted; for an
\* unacknowledged service with a FailureRecord the result is a recovery: the
\* record is removed and one 'healthy' Transition is appended, followed by a
\* recovery alert when recovery notifications are on, and by clearing the
\* log at once when they are off. An unhealthy HTTP result is never recorded
\* into the anomaly buffer.
C25_AnomalyPathLeavesStateAlone ==
  [][\A id \in HttpIds :
       /\ AnomalousResult(id)
          => /\ failures' = failures
             /\ flapping' = flapping
             /\ emitted' = <<Alert("anomaly", id, "")>>
       /\ EndpointGoesOn(id)
          => /\ NoRecordMade(id)
             /\ (id \in acknowledged \/ ~MapHas(failures, id))
                  => /\ failures' = failures
                     /\ flapping' = flapping
                     /\ emitted' = <<>>
             /\ (id \notin acknowledged /\ MapHas(failures, id))
                  => /\ failures' = MapDelete(failures, id)
                     /\ transitionsOf(flapping', id)
                          = IF config.recoveryNotify
                            THEN Append(transitionsOf(flapping, id),
                                        [time |-> now, state |-> "healthy"])
                            ELSE <<>>
                     /\ emitted' = IF config.recoveryNotify
                                   THEN <<Alert("recovery", id, "")>> ELSE <<>>
       /\ UnhealthyResult(id) => responseTimes' = responseTimes
    ]_vars

\* a failing service answered slowly but healthy: the anomaly alert went out
\* and returned, checkEndpoint went on, the FailureRecord is gone, the log
\* ends with the 'healthy' Transition of now and the recovery alert is out
C25_Witness ==
  /\ lastOp.kind = "transport"
  /\ lastOp.ret = "handleCheckResult"
  /\ lastOp.id = HttpApi
  /\ emitted = <<Alert("recovery", HttpApi, "")>>
  /\ ~MapHas(failures, HttpApi)
  /\ Len(transitionsOf(flapping, HttpApi)) >= 2
  /\ flapping[HttpApi][Len(flapping[HttpApi])] = [time |-> now, state |-> "healthy"]
  /\ HttpApi \notin acknowledged

\* a service that never failed answered slowly: the anomaly alert went out
\* and returned, checkEndpoint went on, and there is no FailureRecord and no
\* Transition
C25_WitnessNeverFailed ==
  /\ lastOp.kind = "transport"
  /\ lastOp.ret = "handleCheckResult"
  /\ lastOp.id = HttpApi
  /\ Enqueued = 1
  /\ promises[1] = "resolved"
  /\ failures = EmptyMap
  /\ flapping = EmptyMap
  /\ NoneInProgress
  /\ HttpApi \notin acknowledged

\* an unhealthy result arrived after the buffer was filled: the buffer holds
\* the samples of the healthy results only
C25_WitnessUnhealthy ==
  /\ lastOp.kind = "checkEndpoint"
  /\ lastOp.arg = "unhealthy"
  /\ MapHas(responseTimes, HttpApi)
  /\ getAll(responseTimes[HttpApi]) = <<100, 100, 400>>
  /\ MapHas(failures, HttpApi)

\* the times of the later calls: at once, and when the flapping window and
\* the cooldown have passed
LaterTimes == {now, now + windowMs(config), now + cooldownMs(config)}

\* what later calls on a StateManager holding these collections return
Answers(fs, fl, ack) ==
  [id \in ApiIds, t \in LaterTimes |->
     [recordFailure |-> recordFailure(fs, config, id, "timeout", t).action,
      isFlapping |-> isFlapping(fl, config, id, t),
      isAcknowledged |-> isAcknowledged(ack, id)]]

C30_FailedLoadStartsEmpty ==
  (lastOp.kind = "construct" /\ lastOp.arg = "load failed")
  => /\ failures = EmptyMap
     /\ flapping = EmptyMap
     /\ acknowledged = {}
     /\ sslExpiry = EmptyMap

\* C22: the startup warm-up (runInitialChecks, called by start) runs every
\* check category once: service checks, HTTP endpoint checks, resource
\* checks and TLS checks, whatever the timers do.
C22_WarmUpRunsEveryCategory ==
  lastOp.kind = "start" => \A c \in Categories : Run(c, "start") \in runs

\* C21: within one resource run every result is passed to handleCheckResult,
\* also when the handling of another result of the run never returns: the
\* RAM and CPU results are handled whatever becomes of the disk result.
C21_EveryResultHandled ==
  \A h \in Handlers : (resourceRun[h] # <<>>) ~> (resourceRun[h] = <<>>)

\* C21, finite form: a result of the run that is still to be handled is never
\* kept waiting by the handling of another result of the run.
C21_NoResultWaitsForAnother ==
  \A h \in Handlers : resourceRun[h] # <<>> => handlers[h].pc = "idle"

\* C37: the state-change log of a service never holds more than 10 entries;
\* every recordStateChange appends its entry at the end and, when that makes
\* 11, drops the oldest one, so the log is the last 10 entries recorded, oldest
\* first; isFlapping and getFlappingInfo leave every log as it was.
C37_LogKeepsLastTen ==
  [][/\ \A id \in ApiIds : Len(transitionsOf(flapping', id)) <= 10
     /\ lastOp'.kind = "recordStateChange"
          => transitionsOf(flapping', lastOp'.id)
               = LastOf(Append(transitionsOf(flapping, lastOp'.id),
                               [time |-> now, state |-> lastOp'.arg]), 10)
     /\ lastOp'.kind \in {"isFlapping", "getFlappingInfo"}
          => flapping' = flapping]_vars
\* a twelfth recordStateChange has run: the log holds ten entries and the two
\* oldest ("unhealthy" first) are gone; getFlappingInfo has read the full log
C37_Witness ==
  /\ stateChanges = MaxLogCalls
  /\ lastOp.kind = "getFlappingInfo"
  /\ Len(transitionsOf(flapping, DockerWeb)) = 10
  /\ transitionsOf(flapping, DockerWeb)[1].state = "healthy"
  /\ transitionsOf(flapping, DockerWeb)[10].state = "unhealthy"

\* C34: the lastAlertSent of a FailureRecord that stays changes only in a step
\* that emits the re-alert (the failure alert of an ongoing failure) for its
\* id; a failing result answered with a flapping alert, or with nothing,
\* leaves it as it was.
C34_LastAlertSentOnlyOnReAlert ==
  [][\A id \in OpsIds :
       (/\ MapHas(failures, id)
        /\ MapHas(failures', id)
        /\ failures'[id].lastAlertSent # failures[id].lastAlertSent)
         => \E i \in 1..Len(emitted') :
              /\ IsFailureAlert(emitted'[i])
              /\ emitted'[i].id = id
              /\ emitted'[i].action = "ongoing_failure"]_vars

\* C33: once a flapping alert has gone out for a service and while the
\* service is still flapping (its log holds at least the threshold of
\* Transitions inside the flapping window, so no full window has passed
\* without a state change), handling a check result of it emits no alert of
\* any kind.
C33_NoAlertWhileFlapping ==
  [][\A id \in OpsIds :
       ( /\ lastAlertAt[id] = -2
         /\ isFlapping(flapping, config, id, now)
         /\ lastOp'.id = id )
         => emitted' = <<>>]_vars

\* C35: handling a check result appends a Transition to the service's log
\* exactly when the result's health differs from the health of the result
\* processed before it for that service: a failing result appends "unhealthy"
\* when the one before was not failing and leaves the log alone otherwise; a
\* healthy result after a failing one is appended (and without a recovery
\* alert to await the log is cleared at once by the recovery), a healthy
\* result after a healthy one leaves the log alone.
C35_TransitionIffHealthDiffers ==
  [][\A id \in OpsIds, r \in Results :
       (/\ lastOp'.kind = "handleCheckResult"
        /\ lastOp'.id = id
        /\ lastOp'.arg = HealthOf(r))
         => LET log == transitionsOf(flapping, id)
                appended ==
                  LastOf(Append(log, [time |-> now, state |-> HealthOf(r)]),
                         MaxTransitionsKept)
            IN  IF IsFlip(id, r)
                THEN \/ transitionsOf(flapping', id) = appended
                     \/ /\ r.healthy
                        /\ lastOp'.ret = "recovered"
                        /\ ~config.recoveryNotify
                        /\ transitionsOf(flapping', id) = <<>>
                ELSE transitionsOf(flapping', id) = log]_vars

\* C36: a FailureRecord is created or deleted, a log or the acknowledged set
\* changed, only by the Scheduler handling a check result (a log also when
\* that handling goes on after the alert it awaited); and the handling that
\* deletes a FailureRecord reports the recovery (the recovery alert, when
\* recovery notifications are on) and clears the service's flap history, at
\* once or when the alert it awaits has returned.
C36_OnlySchedulerMutatesState ==
  [][\A id \in OpsIds :
       /\ (\/ MapHas(failures', id) # MapHas(failures, id)
           \/ (id \in acknowledged') # (id \in acknowledged))
            => lastOp'.kind = "handleCheckResult" /\ lastOp'.id = id
       /\ transitionsOf(flapping', id) # transitionsOf(flapping, id)
            => /\ lastOp'.kind \in {"handleCheckResult", "transport"}
               /\ lastOp'.id = id
       /\ (MapHas(failures, id) /\ ~MapHas(failures', id))
            => /\ lastOp'.ret = "recovered"
               /\ IF config.recoveryNotify
                  THEN /\ HasAlert(emitted', {"recovery"})
                       /\ AwaitsRecoveryAlert(handlers', id)
                  ELSE ~MapHas(flapping', id)]_vars

\* the transport calls made whose promise is not settled yet
InFlight ==
  {i \in 1..Len(handed) : promises[handed[i].message] = "pending"}

\* C38: at most one bot.sendMessage call is in flight and the drain loop is the
\* one the isProcessingQueue flag stands for (running exactly while the flag is
\* set); a sendMessage call made while the flag is set appends its message at
\* the end of the queue and does nothing else: it starts no loop, takes nothing
\* from the queue and hands nothing to the transport.
C38_SingleDrainLoop ==
  [][/\ Cardinality(InFlight') <= 1
     /\ isProcessingQueue' <=> drain'.pc # "idle"
     /\ (isProcessingQueue /\ lastOp'.kind = "sendMessage")
          => /\ messageQueue' = Append(messageQueue, Enqueued + 1)
             /\ drain' = drain
             /\ isProcessingQueue'
             /\ handed' = handed
             /\ lastSentTime' = lastSentTime]_vars
\* two sendMessage calls were made while the first message's transport call
\* is in flight: both messages wait in the queue
C38_Witness ==
  /\ lastOp.kind = "sendMessage"
  /\ drain.pc = "sending"
  /\ drain.message = 1
  /\ messageQueue = <<2, 3>>
  /\ Cardinality(InFlight) = 1

\* C39: two consecutive firings of a category's cron job are exactly the
\* configured interval apart, for every configured interval.
C39_FiresWithConfiguredPeriod ==
  timer.gap # 0 => timer.gap = timer.interval

\* C40: every FailureRecord has consecutiveFailures >= 1 and
\* firstSeen <= lastAlertSent <= now; while a record lives its firstSeen stays
\* and each recordFailure for its id adds exactly 1 to consecutiveFailures (a
\* new record starts at 1); an operation on one id leaves the FailureRecord,
\* the Transition log and the acknowledgment of every other id as they were.
C40_RecordInvariants ==
  [][\A id \in SMIds :
       /\ MapHas(failures', id)
            => /\ failures'[id].consecutiveFailures >= 1
               /\ failures'[id].firstSeen <= failures'[id].lastAlertSent
               /\ failures'[id].lastAlertSent <= now'
       /\ (MapHas(failures, id) /\ MapHas(failures', id))
            => failures'[id].firstSeen = failures[id].firstSeen
       /\ (lastOp'.kind = "recordFailure" /\ lastOp'.id = id)
            => /\ MapHas(failures', id)
               /\ failures'[id].consecutiveFailures
                    = IF MapHas(failures, id)
                      THEN failures[id].consecutiveFailures + 1 ELSE 1
       /\ (lastOp'.kind # "recordFailure" /\ MapHas(failures, id)
             /\ MapHas(failures', id))
            => failures'[id].consecutiveFailures = failures[id].consecutiveFailures
       /\ lastOp'.id # id
            => /\ MapHas(failures', id) = MapHas(failures, id)
               /\ MapHas(failures, id) => failures'[id] = failures[id]
               /\ transitionsOf(flapping', id) = transitionsOf(flapping, id)
               /\ (id \in acknowledged') = (id \in acknowledged)]_vars
\* a record of one id was re-alerted after the cooldown (its lastAlertSent is
\* later than its firstSeen, three failures were counted) while the other id
\* has a record, a log and an acknowledgment of its own
C40_Witness ==
  /\ lastOp.kind = "recordFailure"
  /\ lastOp.id = SslSite
  /\ MapHas(failures, SslSite)
  /\ failures[SslSite].firstSeen = 0
  /\ failures[SslSite].lastAlertSent = TickMs
  /\ failures[SslSite].consecutiveFailures = 3
  /\ MapHas(failures, DockerWeb)
  /\ failures[DockerWeb].firstSeen = TickMs
  /\ failures[DockerWeb].consecutiveFailures = 1
  /\ Len(transitionsOf(flapping, DockerWeb)) = 1
  /\ DockerWeb \in acknowledged

\* C32: the State Engine calls made for one check result are not interleaved
\* with those made for another result of the same id: when a recovery clears
\* the flap history (after the recovery alert it awaited), the log it erases
\* ends with the "healthy" Transition that
\* this recovery's result appended and holds no Transition after a "healthy"
\* one, that is, none that a later result appended.
C32_ClearErasesNoLaterTransition ==
  [][\A id \in OpsIds :
       (/\ lastOp'.kind = "transport"
        /\ MapHas(flapping, id)
        /\ ~MapHas(flapping', id))
         => LET log == transitionsOf(flapping, id)
            IN  /\ log[Len(log)].state = "healthy"
                /\ \A i \in 1..(Len(log) - 1) : log[i].state # "healthy"]_vars

\* C31: the shutdown writes a final save, and when the process exits the state
\* file holds the in-memory state: nothing that a handling still in progress
\* changed after the final save is missing from the file (the writes of the
\* shutdown taken to succeed).
C31_FileEqualsMemoryAtExit ==
  /\ (lastOp.kind = "shutdown" /\ lastOp.ret = "written")
       => stateFile = FileOf(stringify(failures, flapping, acknowledged, sslExpiry))
  /\ (process.phase = "exited" /\ process.saved)
       => stateFile = FileOf(stringify(failures, flapping, acknowledged, sslExpiry))

====
